---- MODULE Spec2Model ----
(***************************************************************************)
(* The pynector client dispatcher (src/src/pynector/client.py): request,   *)
(* batch_request and request_with_retry over one transport.                *)
(*                                                                         *)
(* Scheduling is cooperative: a task runs from one suspension point to the *)
(* next without interruption, so every action below is one such run.  The  *)
(* suspension points are the transport's connect, send and each received   *)
(* chunk, the wait for a limiter token, the backoff sleep and the exit of  *)
(* the task group.  A deadline is a timer of the event loop: it can fire   *)
(* between any two runs, and the cancellation it requests is delivered to  *)
(* a task at the suspension point the task is in.                          *)
(*                                                                         *)
(* The transport is the environment.  Each of its operations ends either   *)
(* normally or with one of FailKinds; the chunks it yields for a payload d *)
(* are <<d, 1>>, <<d, 2>>, ..., so a response names the payload it answers.*)
(***************************************************************************)
EXTENDS Integers, Sequences, FiniteSets, TLC

\* Bounds of the model.
MaxReq == 2
MaxConc == 1
NumChunks == 2
MaxRetries == 3
MaxOps == 3
MaxRegs == 3

\* Timeout values: no value at all (Python None), a key missing from the
\* configuration mapping, zero, and one positive duration.
NoneT == -1
Absent == -2

Tasks == 1..MaxReq

\* What the transport can raise from connect, send or receive: the builtin
\* ConnectionError, an error already of the client taxonomy (a TransportError
\* kind), or any other exception.
FailKinds == {"ConnectionError", "TransportError", "Other"}
Outcomes == {"ok"} \cup FailKinds

\* Values a result slot, a return value or a raised error can take.
NoneV == [tag |-> "none"]
Ok(body) == [tag |-> "ok", body |-> body]
Err(kind, wrapped, d, n) == [tag |-> "err", kind |-> kind, wrapped |-> wrapped, of |-> d, inv |-> n]
Group(errs) == [tag |-> "group", errs |-> errs]

\* The full response of the transport to payload d.
Response(d) == [k \in 1..NumChunks |-> <<d, k>>]

VARIABLES
    client,     \* the Pynector instance: transport reference, flags, configuration
    tasks,      \* per task: the request it is running and where it is suspended
    batch,      \* the running batch_request call: arguments, result slots, scopes
    retry,      \* the running request_with_retry call
    req,        \* the arguments of the single request call
    caller,     \* which public operation is running ("none" between two operations)
    reg,        \* the transport factory registry, with the calls made on it
    life,       \* the calling program: the operations it has made, whether it is inside the client's scope
    ghost,      \* history: counters and snapshots the claims refer to
    xport,      \* a transport used directly: its lifecycle state, configuration and last call
    conc,       \* a program over the concurrency library: the primitive, its tasks, their shared locals
    wire        \* a message of the transport layer: the message, its bytes, what deserialize made of them

vars == <<client, tasks, batch, retry, req, caller, reg, life, ghost, xport, conc, wire>>

\* The variables of the library models, which the client leaves alone, and
\* the variables of the client, which the library models leave alone.
libVars == <<xport, conc, wire>>
clientVars == <<client, tasks, batch, retry, req, caller, reg, life, ghost>>

\* The current state as one record, so that the code's sequential steps
\* compose as functions from state to state.
Self == [client |-> client, tasks |-> tasks, batch |-> batch, retry |-> retry, req |-> req, caller |-> caller, reg |-> reg, life |-> life, ghost |-> ghost]

Become(s) ==
    /\ client' = s.client
    /\ tasks' = s.tasks
    /\ batch' = s.batch
    /\ retry' = s.retry
    /\ req' = s.req
    /\ caller' = s.caller
    /\ reg' = s.reg
    /\ life' = s.life
    /\ UNCHANGED libVars
    /\ ghost' = s.ghost

IdleTask == [pc |-> "idle", data |-> 0, timeout |-> NoneT, result |-> <<>>, scope |-> "none", out |-> NoneV, inv |-> 0]

--------------------------------------------------------------------------
\* Faulty variant of GetConfig: the environment is looked up before the
\* instance configuration.
GetConfigEnvFirst(s, default) ==
    IF s.client.env_timeout # NoneT THEN s.client.env_timeout
    ELSE IF s.client.config_timeout # Absent THEN s.client.config_timeout
    ELSE default

\* Configuration lookup: instance configuration, then environment, then default.
GetConfig(s, default) ==
    IF s.client.config_timeout # Absent THEN s.client.config_timeout
    ELSE IF s.client.env_timeout # NoneT THEN s.client.env_timeout
    ELSE default

\* An error raised for the request task t is running.
ErrOf(s, t, kind, wrapped) == Err(kind, wrapped, s.tasks[t].data, s.tasks[t].inv)

\* The class an error class of the client derives from: TransportError,
\* TimeoutError and ConfigurationError are kinds of PynectorError.
BaseOf(kind) ==
    IF kind \in {"TransportError", "TimeoutError", "ConfigurationError"} THEN "PynectorError"
    ELSE "Exception"

\* isinstance(v, cls) for a raised error v.
IsInstance(v, cls) == v.tag = "err" /\ (v.kind = cls \/ BaseOf(v.kind) = cls)

\* Whether v is caught by "except TransportError".
IsTransportError(v) == IsInstance(v, "TransportError")

\* Translation of what connect raised.
ConnectError(s, t, raw) ==
    IF raw = "TransportError" THEN ErrOf(s, t, "TransportError", FALSE)
    ELSE IF raw = "ConnectionError" THEN ErrOf(s, t, "TransportError", TRUE)
    ELSE ErrOf(s, t, "ConfigurationError", TRUE)

\* Faulty variant of RequestError: an error of the taxonomy is wrapped too.
RequestErrorWrapsAll(s, t, raw) ==
    IF raw = "ConnectionError" THEN ErrOf(s, t, "TransportError", TRUE)
    ELSE ErrOf(s, t, "PynectorError", TRUE)

\* Translation of what send or receive raised.
RequestError(s, t, raw) ==
    IF raw = "ConnectionError" THEN ErrOf(s, t, "TransportError", TRUE)
    ELSE IF raw = "TransportError" THEN ErrOf(s, t, "TransportError", FALSE)
    ELSE ErrOf(s, t, "PynectorError", TRUE)

--------------------------------------------------------------------------
\* request_with_retry

\* Faulty variant of AttemptRemains: the bound of the loop is off by one.
AttemptRemainsOneMore(s) == s.retry.attempt < s.retry.max_retries

\* Whether a further attempt follows the failed attempt.
AttemptRemains(s) == s.retry.attempt < s.retry.max_retries - 1

\* "raise last_error" after the loop: raising None is a TypeError.
RaiseLast(s) ==
    [s EXCEPT !.retry.pc = "done",
              !.retry.out = IF s.retry.last_error = NoneV
                            THEN Err("TypeError", FALSE, s.retry.data, 0)
                            ELSE s.retry.last_error]

\* Faulty variant of Backoff: the attempts are counted from 1.
BackoffFromOne(retry_delay, a) == retry_delay * (2 ^ (a + 1))

\* The backoff before the attempt that follows attempt number a (from 0).
Backoff(retry_delay, a) == retry_delay * (2 ^ a)

\* Faulty variant of RetryAfter: every error is retried, not only a TransportError.
RetryAfterAnyError(s0, v) ==
    LET s == [s0 EXCEPT !.ghost.attempts = Append(@, v)]
    IN IF v.tag = "ok"
       THEN [s EXCEPT !.retry.pc = "done", !.retry.out = v]
       ELSE LET s1 == [s EXCEPT !.retry.last_error = v]
            IN IF AttemptRemains(s1)
               THEN [s1 EXCEPT !.retry.sleeps = Append(@, Backoff(s.retry.retry_delay, s.retry.attempt)),
                               !.retry.pc = "sleeping"]
               ELSE RaiseLast(s1)

\* request_with_retry after one invocation of request ended with v: return
\* the payload; on a TransportError sleep and go round again, or leave the
\* loop after the last attempt and raise; let any other error through.
RetryAfter(s0, v) ==
    LET s == [s0 EXCEPT !.ghost.attempts = Append(@, v)]
    IN IF v.tag = "ok"
       THEN [s EXCEPT !.retry.pc = "done", !.retry.out = v]
       ELSE IF IsTransportError(v)
       THEN LET s1 == [s EXCEPT !.retry.last_error = v]
            IN IF AttemptRemains(s1)
               THEN [s1 EXCEPT !.retry.sleeps = Append(@, Backoff(s.retry.retry_delay, s.retry.attempt)),
                               !.retry.pc = "sleeping"]
               ELSE RaiseLast(s1)
       ELSE [s EXCEPT !.retry.pc = "done", !.retry.out = v]

\* The limiter's token of task t is given back on leaving "async with limiter".
ReleaseToken(s, t) == [s EXCEPT !.batch.borrowers = @ \ {t}]

\* The children a cancellation of the batch's scope or task group reaches:
\* those not started, waiting for a token or suspended in an operation.
Cancellable(s) == {t \in DOMAIN s.batch.results : s.tasks[t].pc \in {"spawned", "wait_limiter", "connect", "send", "recv"}}

\* The cancellation unwinds each of them: process_request does not catch
\* it, the limiter token is given back and the slot is left as it is.
CancelChildren(s) ==
    [s EXCEPT !.tasks = [t \in DOMAIN s.tasks |-> IF t \in Cancellable(s)
                                                  THEN [IdleTask EXCEPT !.pc = "cancelled", !.data = s.tasks[t].data,
                                                                         !.inv = s.tasks[t].inv]
                                                  ELSE s.tasks[t]],
              !.batch.borrowers = @ \ Cancellable(s)]

\* Faulty variant of SlotOf: outcomes are stored in the order of completion.
SlotOfNextFree(s, t) ==
    CHOOSE i \in DOMAIN s.batch.results :
        /\ s.batch.results[i] = NoneV
        /\ \A j \in 1..(i - 1) : s.batch.results[j] # NoneV

\* Where process_request stores the outcome of the request at index t.
SlotOf(s, t) == t

\* Faulty variant of Reraises: the error is re-raised whatever raise_on_error is.
ReraisesAlways(s, v) == v.tag = "err"

\* Whether process_request re-raises the error v it caught.
Reraises(s, v) == v.tag = "err" /\ s.batch.raise_on_error

\* process_request after its request ended with v: store it at the task's
\* own index; with raise_on_error an error is raised into the task group,
\* which cancels the other children.
ProcessRequestEnd(s, t, v) ==
    LET s1 == ReleaseToken(s, t)
        s2 == [s1 EXCEPT !.batch.results[SlotOf(s, t)] = v]
    IN IF Reraises(s, v)
       THEN CancelChildren([s2 EXCEPT !.batch.tg_errors = @ \cup {v}])
       ELSE s2

\* request returned or raised v to whoever called it.
RequestFinished(s, t, v) ==
    LET s1 == [s EXCEPT !.tasks[t] = [IdleTask EXCEPT !.pc = "done", !.data = s.tasks[t].data,
                                                      !.inv = s.tasks[t].inv, !.out = v]]
    IN CASE s.caller = "batch" -> ProcessRequestEnd(s1, t, v)
         [] s.caller = "retry" -> RetryAfter(s1, v)
         [] OTHER -> s1

\* Leaving the request's move_on_after scope with the body completed.
ScopeExit(s, t) ==
    IF s.tasks[t].scope = "called"
    THEN RequestFinished(s, t, ErrOf(s, t, "TimeoutError", FALSE))
    ELSE RequestFinished(s, t, Ok(s.tasks[t].result))

\* transport.send is called and the task suspends in it.
StartSend(s, t) ==
    [s EXCEPT !.tasks[t].pc = "send", !.ghost.send_count = @ + 1,
              !.ghost.used = @ \cup {s.client.transport}]

\* __aenter__ returns once _get_transport has returned.
EnterDone(s, t) == [s EXCEPT !.tasks[t] = [IdleTask EXCEPT !.pc = "done", !.out = Ok(<<>>)]]

\* What follows the return of _get_transport: __aenter__ returns, a request sends.
AfterTransport(s, t) == IF s.caller = "enter" THEN EnterDone(s, t) ELSE StartSend(s, t)

\* Faulty variant of GetTransport: the initialized flag is not looked at.
GetTransportAlwaysConnects(s, t) ==
    IF ~s.client.factory_registered
    THEN RequestFinished(s, t, ErrOf(s, t, "ConfigurationError", TRUE))
    ELSE LET s1 == IF s.client.transport = 0
                   THEN [s EXCEPT !.client.transport = s.ghost.create_count + 1,
                                  !.ghost.create_count = @ + 1]
                   ELSE s
         IN [s1 EXCEPT !.tasks[t].pc = "connect", !.ghost.connect_count = @ + 1]

\* _get_transport up to its first suspension: reuse the initialized
\* transport, or look the factory up, create the transport when there is
\* none and call connect.
GetTransport(s, t) ==
    IF s.client.transport = 0 \/ ~s.client.transport_initialized
    THEN IF ~s.client.factory_registered
         THEN RequestFinished(s, t, ErrOf(s, t, "ConfigurationError", TRUE))
         ELSE LET s1 == IF s.client.transport = 0
                        THEN [s EXCEPT !.client.transport = s.ghost.create_count + 1,
                                       !.ghost.create_count = @ + 1]
                        ELSE s
              IN [s1 EXCEPT !.tasks[t].pc = "connect", !.ghost.connect_count = @ + 1]
    ELSE AfterTransport(s, t)

\* The deadline that bounds a request called with timeout argument targ.
ResolveTimeout(s, targ) == IF targ = NoneT THEN GetConfig(s, NoneT) ELSE targ

\* request(d, timeout = targ) on task t, up to its first suspension.
BeginRequest(s, t, d, targ) ==
    LET timeout == ResolveTimeout(s, targ)
        s1 == [s EXCEPT !.tasks[t] = [pc |-> "start", data |-> d, timeout |-> timeout, result |-> <<>>,
                                      scope |-> IF timeout > 0 THEN "open" ELSE "none",
                                      out |-> NoneV, inv |-> s.ghost.calls[d] + 1],
                        !.ghost.calls[d] = @ + 1]
    IN GetTransport(s1, t)

--------------------------------------------------------------------------
\* The operations a task can be suspended in.
InFlight == {"connect", "send", "recv"}

\* Task t is suspended in transport operation op.
Pending(t, op) == tasks[t].pc = op

\* The body of request has read every chunk.  Without a timeout scope the
\* request returns at once.  With one, the task has been woken by the last
\* chunk and leaves the scope in its next run; the deadline can still fire
\* before that run.
BodyComplete(s, t) ==
    IF s.tasks[t].scope = "none"
    THEN RequestFinished(s, t, Ok(s.tasks[t].result))
    ELSE [s EXCEPT !.tasks[t].pc = "body_done"]

\* connect ends: the transport is marked initialized and send is called, or
\* the failure is translated and raised.
ConnectDone(t, o) ==
    /\ Pending(t, "connect")
    /\ IF o = "ok"
       THEN Become(AfterTransport([Self EXCEPT !.client.transport_initialized = TRUE,
                                                !.ghost.connect_ok = @ + 1], t))
       ELSE Become(RequestFinished([Self EXCEPT !.ghost.tfail[t] = o], t, ConnectError(Self, t, o)))

\* send ends: the task goes on to receive, or the failure is translated and raised.
SendDone(t, o) ==
    /\ Pending(t, "send")
    /\ IF o = "ok"
       THEN Become([Self EXCEPT !.tasks[t].pc = "recv"])
       ELSE Become(RequestFinished([Self EXCEPT !.ghost.tfail[t] = o], t, RequestError(Self, t, o)))

\* receive yields the next chunk, which is appended to the result, or fails.
RecvChunk(t, o) ==
    /\ Pending(t, "recv")
    /\ IF o = "ok"
       THEN LET chunk == <<tasks[t].data, Len(tasks[t].result) + 1>>
                s1 == [Self EXCEPT !.tasks[t].result = Append(@, chunk)]
            IN IF Len(s1.tasks[t].result) = NumChunks
               THEN Become(BodyComplete(s1, t))
               ELSE Become(s1)
       ELSE Become(RequestFinished([Self EXCEPT !.ghost.tfail[t] = o], t, RequestError(Self, t, o)))

\* Faulty variant of DeadlineFired: the chunks read so far are returned.
DeadlineReturnsPartial(s, t) ==
    IF s.tasks[t].pc \in InFlight
    THEN RequestFinished([s EXCEPT !.tasks[t].scope = "called"], t, Ok(s.tasks[t].result))
    ELSE [s EXCEPT !.tasks[t].scope = "called"]

\* The scope's deadline fires: cancel_called becomes true.  A task suspended
\* in an operation is cancelled there, the scope absorbs the cancellation
\* and request raises TimeoutError.  A task whose body has completed is not
\* interrupted any more.
DeadlineFired(s, t) ==
    IF s.tasks[t].pc \in InFlight
    THEN RequestFinished([s EXCEPT !.tasks[t].scope = "called"], t, ErrOf(s, t, "TimeoutError", FALSE))
    ELSE [s EXCEPT !.tasks[t].scope = "called"]

RequestDeadline(t) ==
    /\ tasks[t].scope = "open"
    /\ tasks[t].pc \in InFlight \cup {"body_done"}
    /\ Become(DeadlineFired([Self EXCEPT !.ghost.fired[t] = tasks[t].pc], t))

\* The request's scope is left after the body completed.
RequestScopeExit(t) ==
    /\ tasks[t].pc = "body_done"
    /\ Become(ScopeExit(Self, t))

--------------------------------------------------------------------------
\* batch_request

\* The error batch_request raises when its own deadline fired.
BatchTimeoutError == Err("TimeoutError", FALSE, 0, 0)

\* Faulty variant of ProcessRequestStart: the limiter is not entered.
ProcessRequestStartUnlimited(s, t) == BeginRequest(s, t, s.batch.requests[t], NoneT)

\* The first run of child t: process_request enters the limiter when there
\* is one, waiting when every token is borrowed, and calls request.
ProcessRequestStart(s, t) ==
    IF s.batch.max_concurrency > 0
    THEN IF Cardinality(s.batch.borrowers) < s.batch.max_concurrency
         THEN BeginRequest([s EXCEPT !.batch.borrowers = @ \cup {t}], t, s.batch.requests[t], NoneT)
         ELSE [s EXCEPT !.tasks[t].pc = "wait_limiter"]
    ELSE BeginRequest(s, t, s.batch.requests[t], NoneT)

\* Faulty variant of Fill: the unset slots are left as they are.
FillNothing(results, e) == results

\* Every slot still at the sentinel is given the error e.
Fill(results, e) == [i \in DOMAIN results |-> IF results[i] = NoneV THEN e ELSE results[i]]

\* Faulty variant of BatchExcept: the error is never re-raised.
BatchExceptSwallows(s, e) ==
    [s EXCEPT !.batch.pc = "done", !.batch.results = Fill(@, e),
              !.batch.out = [tag |-> "list", items |-> Fill(s.batch.results, e)]]

\* The handler around the task group: re-raise with raise_on_error, else
\* fill the remaining slots with the error and return the list.
BatchExcept(s, e) ==
    IF s.batch.raise_on_error
    THEN [s EXCEPT !.batch.pc = "done", !.batch.out = e]
    ELSE [s EXCEPT !.batch.pc = "done", !.batch.results = Fill(@, e),
                   !.batch.out = [tag |-> "list", items |-> Fill(s.batch.results, e)]]

\* Faulty variant of BatchTimedOut: every slot is given the TimeoutError.
BatchTimedOutOverwrites(s) ==
    IF s.batch.raise_on_error
    THEN BatchExcept(s, BatchTimeoutError)
    ELSE [s EXCEPT !.batch.pc = "done",
                   !.batch.results = [i \in DOMAIN @ |-> BatchTimeoutError],
                   !.batch.out = [tag |-> "list", items |-> [i \in DOMAIN s.batch.results |-> BatchTimeoutError]]]

\* After the scope closed with the deadline fired.
BatchTimedOut(s) ==
    IF s.batch.raise_on_error
    THEN BatchExcept(s, BatchTimeoutError)
    ELSE [s EXCEPT !.batch.pc = "done", !.batch.results = Fill(@, BatchTimeoutError),
                   !.batch.out = [tag |-> "list", items |-> Fill(s.batch.results, BatchTimeoutError)]]

\* Faulty variant of BatchFinish: cancel_called is not looked at.
BatchFinishIgnoresDeadline(s, aggregate) ==
    IF s.batch.tg_errors # {}
    THEN BatchExcept(s, IF aggregate THEN Group(s.batch.tg_errors)
                        ELSE CHOOSE e \in s.batch.tg_errors : TRUE)
    ELSE [s EXCEPT !.batch.pc = "done", !.batch.out = [tag |-> "list", items |-> s.batch.results]]

\* The task group and the scope around it are left: an error of a child
\* leaves the group (alone, or aggregated with the others); else the
\* deadline is looked at; else the list is returned.
BatchFinish(s, aggregate) ==
    IF s.batch.tg_errors # {}
    THEN BatchExcept(s, IF aggregate THEN Group(s.batch.tg_errors)
                        ELSE CHOOSE e \in s.batch.tg_errors : TRUE)
    ELSE IF s.batch.timeout > 0 /\ s.batch.cancel_called
    THEN BatchTimedOut(s)
    ELSE [s EXCEPT !.batch.pc = "done", !.batch.out = [tag |-> "list", items |-> s.batch.results]]

NumRequests == Len(batch.requests)

BatchStart ==
    /\ caller = "batch"
    /\ batch.pc = "idle"
    /\ Become([Self EXCEPT !.batch.pc = "running",
                           !.batch.results = [i \in 1..NumRequests |-> NoneV],
                           !.tasks = [t \in Tasks |-> IF t <= NumRequests
                                                      THEN [IdleTask EXCEPT !.pc = "spawned", !.data = batch.requests[t]]
                                                      ELSE IdleTask]])

ChildStart(t) ==
    /\ tasks[t].pc = "spawned"
    /\ Become(ProcessRequestStart(Self, t))

\* A waiting child gets a token that was given back.
LimiterAcquire(t) ==
    /\ tasks[t].pc = "wait_limiter"
    /\ Cardinality(batch.borrowers) < batch.max_concurrency
    /\ Become(BeginRequest([Self EXCEPT !.batch.borrowers = @ \cup {t}], t, batch.requests[t], NoneT))

\* The deadline of the batch's move_on_after scope fires, and every child
\* it reaches is cancelled.
BatchDeadline ==
    /\ batch.pc = "running"
    /\ batch.timeout > 0
    /\ ~batch.cancel_called
    /\ Become(CancelChildren([Self EXCEPT !.batch.cancel_called = TRUE,
                                          !.ghost.at_deadline = batch.results,
                                          !.ghost.unfinished = Cancellable(Self)]))

\* Every child has terminated: the group is joined.
BatchExit(aggregate) ==
    /\ batch.pc = "running"
    /\ \A t \in 1..NumRequests : tasks[t].pc \in {"done", "cancelled"}
    /\ Cardinality(batch.tg_errors) # 1 => aggregate
    /\ Become(BatchFinish(Self, aggregate))

--------------------------------------------------------------------------
\* request_with_retry

RetryStart ==
    /\ caller = "retry"
    /\ retry.pc = "idle"
    /\ IF retry.max_retries <= 0
       THEN Become(RaiseLast(Self))
       ELSE Become(BeginRequest([Self EXCEPT !.retry.pc = "calling", !.retry.attempt = 0],
                                1, retry.data, retry.timeout))

\* The backoff sleep ends and the next attempt is made.
RetryWake ==
    /\ retry.pc = "sleeping"
    /\ Become(BeginRequest([Self EXCEPT !.retry.pc = "calling", !.retry.attempt = @ + 1],
                           1, retry.data, retry.timeout))

--------------------------------------------------------------------------
\* request

RequestCall ==
    /\ caller = "request"
    /\ tasks[1].pc = "idle"
    /\ Become(BeginRequest(Self, 1, req.data, req.timeout))

--------------------------------------------------------------------------
\* Initial states: a client just constructed, and the arguments of one call.

\* The arguments of the constructor: the injected transport (0 for none),
\* whether transport_type names a registered factory, and the timeout of
\* the config mapping.
ConstructorArgs == [transport : {0, 1}, registered : BOOLEAN, config_timeout : {Absent, 1}]

\* The fields __init__ sets.
NewClient(a) ==
    [transport |-> a.transport, owns_transport |-> a.transport = 0, transport_initialized |-> FALSE,
     factory_registered |-> a.registered, config_timeout |-> a.config_timeout, env_timeout |-> NoneT]

\* Faulty variant of Construct: the transport type is not validated.
ConstructUnchecked(a) == Ok(NewClient(a))

\* Pynector(...): the fields are set and _validate_config looks the
\* transport type up when the client is to create its own transport.
Construct(a) ==
    IF NewClient(a).owns_transport /\ ~a.registered
    THEN Err("ConfigurationError", FALSE, 0, 0)
    ELSE Ok(NewClient(a))

\* The clients that can be constructed.  An owned transport is created on
\* first use from a factory the constructor found registered; an injected
\* one is held from the start.
Clients == { Construct(a).body : a \in { x \in ConstructorArgs : Construct(x).tag = "ok" } }

NoBatch ==
    [pc |-> "idle", requests |-> <<>>, max_concurrency |-> 0, timeout |-> NoneT,
     raise_on_error |-> FALSE, results |-> <<>>, borrowers |-> {}, cancel_called |-> FALSE,
     tg_errors |-> {}, out |-> NoneV]

NoRetry ==
    [pc |-> "idle", data |-> 0, timeout |-> NoneT, max_retries |-> 0, retry_delay |-> 1,
     attempt |-> 0, last_error |-> NoneV, sleeps |-> <<>>, out |-> NoneV]

NoReq == [data |-> 0, timeout |-> NoneT]

\* An empty registry on which no call has been made.
NoReg ==
    [factories |-> <<>>, before |-> <<>>, log |-> <<>>,
     last |-> [op |-> "none", name |-> "", options |-> 0], out |-> NoneV]

\* The calling program before its first operation.
NoLife ==
    [ctor |-> [done |-> FALSE, args |-> NoneV, out |-> NoneV],
     hist |-> <<>>, in_scope |-> FALSE, pre_close |-> NoneV]

NoGhost ==
    [calls |-> [d \in 0..MaxReq |-> 0], create_count |-> 0, connect_count |-> 0, connect_ok |-> 0,
     send_count |-> 0, disconnect_count |-> 0, used |-> {},
     run |-> [closes |-> 0, discs |-> 0, was_init |-> FALSE],
     tfail |-> [t \in Tasks |-> "none"], fired |-> [t \in Tasks |-> "no"], attempts |-> <<>>,
     at_deadline |-> <<>>, unfinished |-> {}]

InitCommon ==
    /\ client \in Clients
    /\ tasks = [t \in Tasks |-> IdleTask]
    /\ reg = NoReg
    /\ life = NoLife
    /\ ghost = NoGhost
    /\ xport = NoneV
    /\ conc = NoneV
    /\ wire = NoneV

InitBatch ==
    /\ InitCommon
    /\ caller = "batch"
    /\ retry = NoRetry
    /\ req = NoReq
    /\ \E n \in 0..MaxReq, mc \in 0..MaxConc, to \in {NoneT, 1}, roe \in BOOLEAN :
          batch = [NoBatch EXCEPT !.requests = [i \in 1..n |-> i], !.max_concurrency = mc,
                                  !.timeout = to, !.raise_on_error = roe]

\* Values of retry_delay: the default, and another.
RetryDelays == {1, 3}

InitRetry ==
    /\ InitCommon
    /\ caller = "retry"
    /\ batch = NoBatch
    /\ req = NoReq
    /\ \E m \in 0..MaxRetries, to \in {NoneT, 1}, rd \in RetryDelays :
          retry = [NoRetry EXCEPT !.data = 1, !.max_retries = m, !.timeout = to, !.retry_delay = rd]

\* Clients whose config mapping has no timeout, a timeout of None or a
\* timeout of 2, in an environment that sets no timeout or a timeout of 3.
RequestClients ==
    { [c EXCEPT !.config_timeout = ct, !.env_timeout = e] :
        c \in Clients, ct \in {Absent, NoneT, 2}, e \in {NoneT, 3} }

InitRequest ==
    /\ client \in RequestClients
    /\ tasks = [t \in Tasks |-> IdleTask]
    /\ reg = NoReg
    /\ life = NoLife
    /\ ghost = NoGhost
    /\ xport = NoneV
    /\ conc = NoneV
    /\ wire = NoneV
    /\ caller = "request"
    /\ batch = NoBatch
    /\ retry = NoRetry
    /\ \E to \in {NoneT, 0, 1} : req = [data |-> 1, timeout |-> to]

--------------------------------------------------------------------------
\* TransportFactoryRegistry (src/src/pynector/transport/registry.py): a
\* dict from names to factories.  A factory is an object of the caller; what
\* factory f creates for options o is written <<f, o>>.

Names == {"http", "sdk"}
Factories == {1, 2}
Options == {1, 2}

\* Faulty variant of RegistryRegister: a name already registered keeps its factory.
RegistryRegisterKeepsFirst(factories, name, factory) ==
    [n \in DOMAIN factories \cup {name} |->
        IF n \in DOMAIN factories THEN factories[n] ELSE factory]

\* self._factories[name] = factory
RegistryRegister(factories, name, factory) ==
    [n \in DOMAIN factories \cup {name} |-> IF n = name THEN factory ELSE factories[n]]

\* return self._factories[name]: a missing key raises KeyError.
RegistryGet(factories, name) ==
    IF name \in DOMAIN factories THEN Ok(factories[name]) ELSE Err("KeyError", FALSE, 0, 0)

\* factory = self.get(name); return factory.create_transport(**kwargs)
RegistryCreateTransport(factories, name, options) ==
    LET got == RegistryGet(factories, name)
    IN IF got.tag = "ok" THEN Ok(<<got.body, options>>) ELSE got

Register(name, factory) ==
    /\ Len(reg.log) < MaxRegs
    /\ reg' = [reg EXCEPT !.factories = RegistryRegister(@, name, factory),
                          !.before = reg.factories,
                          !.log = Append(@, <<name, factory>>),
                          !.last = [op |-> "register", name |-> name, options |-> 0],
                          !.out = NoneV]
    /\ UNCHANGED <<client, tasks, batch, retry, req, caller, life, ghost, xport, conc, wire>>

Get(name) ==
    /\ reg' = [reg EXCEPT !.before = reg.factories,
                          !.last = [op |-> "get", name |-> name, options |-> 0],
                          !.out = RegistryGet(reg.factories, name)]
    /\ UNCHANGED <<client, tasks, batch, retry, req, caller, life, ghost, xport, conc, wire>>

CreateTransport(name, options) ==
    /\ reg' = [reg EXCEPT !.before = reg.factories,
                          !.last = [op |-> "create_transport", name |-> name, options |-> options],
                          !.out = RegistryCreateTransport(reg.factories, name, options)]
    /\ UNCHANGED <<client, tasks, batch, retry, req, caller, life, ghost, xport, conc, wire>>

InitRegistry ==
    /\ InitCommon
    /\ caller = "none"
    /\ batch = NoBatch
    /\ retry = NoRetry
    /\ req = NoReq

NextRegistry ==
    \/ \E name \in Names, factory \in Factories : Register(name, factory)
    \/ \E name \in Names : Get(name)
    \/ \E name \in Names, options \in Options : CreateTransport(name, options)

SpecRegistry == InitRegistry /\ [][NextRegistry]_vars

--------------------------------------------------------------------------
\* The life of a client: a program that makes up to MaxOps operations on
\* it, one after the other: request, batch_request, aclose, and the entry
\* and exit of "async with".

\* What disconnect can do: return, or raise.
DisconnectOutcomes == {"ok", "Other"}

\* One operation the program has made, with how it ended.
Op(name, out, raised) == [op |-> name, out |-> out, raised |-> raised]

\* The program constructs the client.
LifeConstruct ==
    /\ ~life.ctor.done
    /\ \E a \in ConstructorArgs :
          LET r == Construct(a)
          IN Become([Self EXCEPT !.life.ctor = [done |-> TRUE, args |-> a,
                                                out |-> IF r.tag = "ok" THEN Ok(<<>>) ELSE r],
                                 !.client = IF r.tag = "ok" THEN r.body ELSE NoneV])

Constructed == life.ctor.done /\ life.ctor.out.tag = "ok"

CanCall == Constructed /\ caller = "none" /\ Len(life.hist) < MaxOps

LifeRequest ==
    /\ CanCall
    /\ Become(BeginRequest([Self EXCEPT !.caller = "request", !.req = [data |-> 1, timeout |-> NoneT]],
                            1, 1, NoneT))

\* The batches of this program have at most one request: the interleavings
\* of the children of a batch are explored under SpecBatch.
LifeBatchSizes == {0, 1}

LifeBatch ==
    /\ CanCall
    /\ \E n \in LifeBatchSizes, roe \in BOOLEAN :
          Become([Self EXCEPT !.caller = "batch",
                              !.batch = [NoBatch EXCEPT !.requests = [i \in 1..n |-> i],
                                                        !.raise_on_error = roe]])

\* __aenter__: only _get_transport is awaited.
LifeEnter ==
    /\ CanCall
    /\ ~life.in_scope
    /\ Become(GetTransport([Self EXCEPT !.caller = "enter", !.tasks[1].pc = "start"], 1))

\* The running operation returns or raises to the program.
LifeReturn ==
    /\ caller \in {"request", "batch", "enter"}
    /\ IF caller = "batch" THEN batch.pc = "done" ELSE tasks[1].pc = "done"
    /\ LET out == IF caller = "batch" THEN batch.out ELSE tasks[1].out
           ok == out.tag \in {"ok", "list"}
       IN Become([Self EXCEPT !.caller = "none",
                              !.tasks = [t \in Tasks |-> IdleTask],
                              !.batch = NoBatch,
                              !.req = NoReq,
                              !.life.hist = Append(@, Op(caller, IF ok THEN "ok" ELSE "err", FALSE)),
                              !.life.in_scope = @ \/ (caller = "enter" /\ ok),
                              !.ghost.run = NoGhost.run,
                              !.ghost.calls = NoGhost.calls,
                              !.ghost.tfail = NoGhost.tfail,
                              !.ghost.fired = NoGhost.fired])

\* The run of successive aclose calls grows by one call, which called
\* disconnect or not.
CloseCounted(s, disconnected) ==
    [s EXCEPT !.ghost.run = [closes |-> @.closes + 1,
                             discs |-> @.discs + (IF disconnected THEN 1 ELSE 0),
                             was_init |-> IF @.closes = 0 THEN s.client.transport_initialized ELSE @.was_init]]

\* Faulty variant of Close: the transport is disconnected whoever owns it.
CloseAnyTransport(s, o) ==
    IF s.client.transport # 0
    THEN [CloseCounted(s, TRUE) EXCEPT
                   !.ghost.disconnect_count = @ + 1,
                   !.client.transport = 0,
                   !.client.transport_initialized = FALSE,
                   !.life.hist = Append(@, Op("aclose", IF o = "ok" THEN "ok" ELSE "err", FALSE))]
    ELSE [CloseCounted(s, FALSE) EXCEPT !.life.hist = Append(@, Op("aclose", "ok", FALSE))]

\* Faulty variant of Close: the reference and the flag are not cleared.
CloseKeepsReference(s, o) ==
    IF s.client.owns_transport /\ s.client.transport # 0
    THEN [CloseCounted(s, TRUE) EXCEPT
                   !.ghost.disconnect_count = @ + 1,
                   !.life.hist = Append(@, Op("aclose", IF o = "ok" THEN "ok" ELSE "err", FALSE))]
    ELSE [CloseCounted(s, FALSE) EXCEPT !.life.hist = Append(@, Op("aclose", "ok", FALSE))]

\* aclose: an owned transport that is held is disconnected, and the
\* reference and the flag are cleared whether or not disconnect raised.
Close(s, o) ==
    IF s.client.owns_transport /\ s.client.transport # 0
    THEN [CloseCounted(s, TRUE) EXCEPT
                   !.ghost.disconnect_count = @ + 1,
                   !.client.transport = 0,
                   !.client.transport_initialized = FALSE,
                   !.life.hist = Append(@, Op("aclose", IF o = "ok" THEN "ok" ELSE "err", FALSE))]
    ELSE [CloseCounted(s, FALSE) EXCEPT !.life.hist = Append(@, Op("aclose", "ok", FALSE))]

AClose(o) ==
    /\ CanCall
    /\ Become(Close([Self EXCEPT !.life.pre_close = client], o))

\* Faulty variant of Exit: the transport is left connected.
ExitLeavesConnected(s, raised, o) ==
    [s EXCEPT !.life.in_scope = FALSE, !.ghost.run = NoGhost.run,
              !.life.hist = Append(@, Op("exit", "ok", raised))]

\* __aexit__: an owned transport that is held is disconnected and then
\* cleared; the exception of the body, if any, is not looked at.
Exit(s, raised, o) ==
    LET s1 == [s EXCEPT !.life.in_scope = FALSE, !.ghost.run = NoGhost.run]
    IN IF s.client.owns_transport /\ s.client.transport # 0
       THEN LET s2 == [s1 EXCEPT !.ghost.disconnect_count = @ + 1,
                                 !.life.hist = Append(@, Op("exit", IF o = "ok" THEN "ok" ELSE "err", raised))]
            IN IF o = "ok"
               THEN [s2 EXCEPT !.client.transport = 0, !.client.transport_initialized = FALSE]
               ELSE s2
       ELSE [s1 EXCEPT !.life.hist = Append(@, Op("exit", "ok", raised))]

\* The body of "async with" ends, normally or by raising, and __aexit__ runs.
AExit(raised, o) ==
    /\ caller = "none"
    /\ life.in_scope
    /\ Become(Exit(Self, raised, o))

InitLife ==
    /\ client = NoneV
    /\ tasks = [t \in Tasks |-> IdleTask]
    /\ reg = NoReg
    /\ life = NoLife
    /\ ghost = NoGhost
    /\ xport = NoneV
    /\ conc = NoneV
    /\ wire = NoneV
    /\ caller = "none"
    /\ batch = NoBatch
    /\ retry = NoRetry
    /\ req = NoReq

\* One step of a request, whoever called it.
RequestStep ==
    \E t \in Tasks :
        \/ \E o \in Outcomes : ConnectDone(t, o)
        \/ \E o \in Outcomes : SendDone(t, o)
        \/ \E o \in Outcomes : RecvChunk(t, o)
        \/ RequestDeadline(t)
        \/ RequestScopeExit(t)

NextBatch ==
    \/ BatchStart
    \/ \E t \in Tasks : ChildStart(t)
    \/ \E t \in Tasks : LimiterAcquire(t)
    \/ BatchDeadline
    \/ \E aggregate \in BOOLEAN : BatchExit(aggregate)
    \/ RequestStep

NextRetry ==
    \/ RetryStart
    \/ RetryWake
    \/ RequestStep

NextRequest ==
    \/ RequestCall
    \/ RequestStep

SpecBatch == InitBatch /\ [][NextBatch]_vars
SpecRetry == InitRetry /\ [][NextRetry]_vars
SpecRequest == InitRequest /\ [][NextRequest]_vars

NextLife ==
    \/ LifeConstruct
    \/ LifeRequest
    \/ LifeBatch
    \/ LifeEnter
    \/ LifeReturn
    \/ \E o \in DisconnectOutcomes : AClose(o)
    \/ \E raised \in BOOLEAN, o \in DisconnectOutcomes : AExit(raised, o)
    \/ BatchStart
    \/ \E t \in Tasks : ChildStart(t)
    \/ \E aggregate \in BOOLEAN : BatchExit(aggregate)
    \/ RequestStep

SpecLife == InitLife /\ [][NextLife]_vars

--------------------------------------------------------------------------
\* Properties of batch_request (checked under SpecBatch).

BatchReturned == batch.pc = "done" /\ batch.out.tag = "list"
BatchRaised == batch.pc = "done" /\ batch.out.tag # "list"
Indices == 1..Len(batch.requests)
IsTimeout(v) == v.tag = "err" /\ v.kind = "TimeoutError"

\* v is an outcome of the request with payload d: the transport's response
\* to d, or an error raised for d.
OutcomeOf(v, d) == v = Ok(Response(d)) \/ (v.tag = "err" /\ v.of = d)

\* C1: a returned list has one entry per request, and entry i is the
\* outcome of requests[i]: its response, its error, or the batch's timeout
\* error when child i was cut by the deadline; never a value of another request.
C1_SlotsFollowRequests ==
    BatchReturned =>
        /\ Len(batch.out.items) = Len(batch.requests)
        /\ \A i \in Indices :
              \/ OutcomeOf(batch.out.items[i], batch.requests[i])
              \/ batch.out.items[i] = BatchTimeoutError /\ tasks[i].pc = "cancelled"

\* Request 2 completed while request 1 was still running; the list returned
\* after the deadline has each outcome at its own index.
C1_Witness ==
    /\ BatchReturned
    /\ Len(batch.requests) = 2
    /\ batch.cancel_called
    /\ ghost.at_deadline = <<NoneV, Ok(Response(2))>>
    /\ batch.out.items = <<BatchTimeoutError, Ok(Response(2))>>

\* C2: with raise_on_error = false the call ends by returning a list in
\* which every slot holds a response or an error, none the sentinel.
C2_NoSlotLeftUnset ==
    (batch.pc = "done" /\ ~batch.raise_on_error) =>
        /\ batch.out.tag = "list"
        /\ \A i \in Indices : batch.out.items[i].tag \in {"ok", "err", "group"}

\* The deadline cut a child whose slot was still unset, and the list was returned.
C2_Witness ==
    /\ BatchReturned
    /\ ~batch.raise_on_error
    /\ batch.cancel_called
    /\ \E i \in Indices : tasks[i].pc = "cancelled" /\ batch.out.items[i].tag = "err"

\* No deadline, of the batch or of the request, touched request i, and the
\* factory lookup did not fail.
Undisturbed(i) ==
    /\ ~batch.cancel_called
    /\ ghost.fired[i] = "no"
    /\ client.factory_registered

\* C3: with raise_on_error = false a transport failure does not make the
\* batch raise: the failing request's error is at its own index, and every
\* request the transport did not fail (and no deadline cut) has run to
\* completion and has its own response at its own index.
C3_FailuresAreIsolated ==
    (batch.pc = "done" /\ ~batch.raise_on_error) =>
        /\ batch.out.tag = "list"
        /\ \A i \in Indices :
              /\ ghost.tfail[i] # "none" =>
                    /\ batch.out.items[i].tag = "err"
                    /\ batch.out.items[i].of = batch.requests[i]
                    /\ batch.out.items[i].kind \in {"TransportError", "PynectorError", "ConfigurationError"}
                    /\ ghost.tfail[i] = "ConnectionError" => batch.out.items[i].kind = "TransportError"
              /\ (ghost.tfail[i] = "none" /\ Undisturbed(i)) =>
                    /\ tasks[i].pc = "done"
                    /\ batch.out.items[i] = Ok(Response(batch.requests[i]))

\* The transport failed request 2 alone: its TransportError is in slot 2 and
\* request 1 has its response in slot 1.
C3_Witness ==
    /\ BatchReturned
    /\ ~batch.raise_on_error
    /\ Len(batch.requests) = 2
    /\ ghost.tfail = [t \in Tasks |-> IF t = 2 THEN "ConnectionError" ELSE "none"]
    /\ batch.out.items[1] = Ok(Response(1))
    /\ IsTransportError(batch.out.items[2])

\* C4: after the batch deadline fired, with raise_on_error = false, the list
\* returned has a TimeoutError at the index of every request that was not
\* finished when it fired (not started, waiting for the limiter or suspended
\* in an operation), and every slot written before it fired is unchanged.
C4_DeadlineFillsUnfinished ==
    (BatchReturned /\ batch.cancel_called /\ ~batch.raise_on_error) =>
        \A i \in Indices :
            /\ i \in ghost.unfinished => IsTimeout(batch.out.items[i])
            /\ ghost.at_deadline[i] # NoneV => batch.out.items[i] = ghost.at_deadline[i]

\* At the deadline one slot held an error and one request was unfinished.
C4_Witness ==
    /\ BatchReturned
    /\ batch.cancel_called
    /\ ~batch.raise_on_error
    /\ ghost.unfinished # {}
    /\ \E i \in Indices : IsTransportError(ghost.at_deadline[i])

\* C5 as stated: whenever the batch deadline fired and raise_on_error = true,
\* the call raises TimeoutError.
C5_AlwaysTimeoutError ==
    (batch.pc = "done" /\ batch.cancel_called /\ batch.raise_on_error) => IsTimeout(batch.out)

\* C5 amended: when the batch deadline fired and raise_on_error = true, no
\* list is returned; the call raises TimeoutError unless the error of a
\* child has left the task group, and then it raises that error (or the
\* aggregate of the children's errors).
C5_DeadlineRaises ==
    (batch.pc = "done" /\ batch.cancel_called /\ batch.raise_on_error) =>
        /\ batch.out.tag # "list"
        /\ batch.tg_errors = {} => batch.out = BatchTimeoutError
        /\ batch.tg_errors # {} => (batch.out \in batch.tg_errors \/ batch.out = Group(batch.tg_errors))

\* The deadline cut a running child and the call raised TimeoutError.
C5_Witness ==
    /\ batch.pc = "done"
    /\ batch.raise_on_error
    /\ batch.cancel_called
    /\ ghost.unfinished # {}
    /\ batch.out = BatchTimeoutError

\* Whether the error e can be recovered from what was raised.
Recoverable(e, raised) == raised = e \/ (raised.tag = "group" /\ e \in raised.errs)

\* C6: with raise_on_error = true, when a request failed with an error (not
\* a cancellation) the call raises, and what it raises is that error or an
\* aggregate containing it.
C6_ErrorIsRaised ==
    (batch.pc = "done" /\ batch.raise_on_error) =>
        \A i \in Indices :
            batch.results[i].tag = "err" =>
                /\ batch.out.tag # "list"
                /\ Recoverable(batch.results[i], batch.out)

\* Request 1 failed with a TransportError, request 2 was cancelled, and the
\* error was raised as it is.
C6_Witness ==
    /\ batch.pc = "done"
    /\ batch.raise_on_error
    /\ Len(batch.requests) = 2
    /\ IsTransportError(batch.results[1])
    /\ tasks[2].pc = "cancelled"
    /\ batch.out = batch.results[1]

\* The requests that are between the start of their transport operations
\* and their end.
Running == {t \in Tasks : tasks[t].pc \in InFlight \cup {"body_done"}}

\* Every request of the batch has been run to its end.
AllRan == \A i \in Indices : tasks[i].pc = "done" /\ ghost.calls[batch.requests[i]] = 1

\* With a limiter, at most max_concurrency requests run, each holding a token.
LimiterBound ==
    batch.max_concurrency >= 1 =>
        /\ Cardinality(Running) <= batch.max_concurrency
        /\ Running \subseteq batch.borrowers
        /\ Cardinality(batch.borrowers) <= batch.max_concurrency

\* C7 as stated: at most max_concurrency requests run at a time, and when no
\* deadline fired every request of the batch has been run by the end.
C7_AllRunUnlessDeadline ==
    /\ LimiterBound
    /\ (batch.pc = "done" /\ batch.max_concurrency >= 1 /\ ~batch.cancel_called) => AllRan

\* The running batch is not stuck: every child has ended and the group can
\* be left, or a child is about to run or is in an operation that will end,
\* or a child that waits for the limiter can take a token.
CanProceed ==
    \/ \A t \in Indices : tasks[t].pc \in {"done", "cancelled"}
    \/ \E t \in Indices : tasks[t].pc \in {"spawned", "body_done"} \cup InFlight
    \/ \E t \in Indices : tasks[t].pc = "wait_limiter" /\ ENABLED LimiterAcquire(t)

\* C7 amended: at most max_concurrency requests run at a time; the call
\* cannot get stuck before its end; and when no deadline fired and no error
\* cancelled the group (raise_on_error = true), every request has been run.
C7_BoundedConcurrency ==
    /\ LimiterBound
    /\ (caller = "batch" /\ batch.pc = "running") => CanProceed
    /\ (batch.pc = "done" /\ batch.max_concurrency >= 1 /\ ~batch.cancel_called /\ batch.tg_errors = {})
          => AllRan

\* With one token and two requests the second waited for the first, and
\* both have been run to a response.
C7_Witness ==
    /\ BatchReturned
    /\ batch.max_concurrency = 1
    /\ Len(batch.requests) = 2
    /\ ~batch.cancel_called
    /\ batch.out.items = <<Ok(Response(1)), Ok(Response(2))>>

--------------------------------------------------------------------------
\* Properties of request (checked under SpecRequest).

\* C8: when the deadline fired while the request was suspended in connect,
\* send or receive, request raises TimeoutError; and a response that is
\* returned is the complete one, returned with no deadline fired.
C8_DeadlineRaisesTimeout ==
    (caller = "request" /\ tasks[1].pc = "done") =>
        /\ ghost.fired[1] \in InFlight => IsTimeout(tasks[1].out)
        /\ tasks[1].out.tag = "ok" =>
              /\ tasks[1].out.body = Response(req.data)
              /\ ghost.fired[1] = "no"

\* The deadline fired while chunks were being received.
C8_Witness ==
    /\ caller = "request"
    /\ tasks[1].pc = "done"
    /\ ghost.fired[1] = "recv"
    /\ IsTimeout(tasks[1].out)

--------------------------------------------------------------------------
\* Properties of request_with_retry (checked under SpecRetry).

\* C9: with max_retries = m >= 1, the invocations of request are made one
\* after the other, each but the last having raised a TransportError; a
\* success at invocation j <= m ends the call with j invocations and that
\* payload; when invocation j raised a TransportError and the call ended,
\* j = m and that last error is raised.
C9_RetryCountsAttempts ==
    (retry.pc = "done" /\ retry.max_retries >= 1) =>
        LET h == ghost.attempts
            j == Len(h)
        IN /\ j = ghost.calls[retry.data]
           /\ 1 <= j /\ j <= retry.max_retries
           /\ \A k \in 1..(j - 1) : IsTransportError(h[k])
           /\ h[j].tag = "ok" => retry.out = Ok(Response(retry.data))
           /\ IsTransportError(h[j]) => (j = retry.max_retries /\ retry.out = h[j])

\* The first invocation raised a TransportError and the second succeeded.
C9_Witness ==
    /\ retry.pc = "done"
    /\ retry.max_retries = 2
    /\ Len(ghost.attempts) = 2
    /\ IsTransportError(ghost.attempts[1])
    /\ retry.out = Ok(Response(retry.data))

\* C10 as stated: with max_retries = 0 request is invoked exactly once and
\* its payload is returned or its error raised.
C10_ZeroRetriesOneAttempt ==
    (retry.pc = "done" /\ retry.max_retries = 0) =>
        /\ ghost.calls[retry.data] = 1
        /\ Len(ghost.attempts) = 1
        /\ retry.out = ghost.attempts[1]

--------------------------------------------------------------------------
\* Properties of the client's life (checked under SpecLife).

\* The last operation the program made was op, and none is running.
JustDid(op) ==
    /\ caller = "none"
    /\ Len(life.hist) > 0
    /\ life.hist[Len(life.hist)].op = op

\* C12: on a client built with an injected transport, disconnect is never
\* called, the reference is never dropped, and aclose leaves the reference
\* and the initialized flag as they were.
C12_InjectedNeverDisconnected ==
    (Constructed /\ ~client.owns_transport) =>
        /\ ghost.disconnect_count = 0
        /\ client.transport = 1
        /\ JustDid("aclose") => client = life.pre_close

\* An injected transport was connected by the entry of the scope; aclose and
\* the exit of the scope followed, and it is still held and initialized.
C12_Witness ==
    /\ Constructed
    /\ ~client.owns_transport
    /\ Len(life.hist) = 3
    /\ life.hist[1] = Op("enter", "ok", FALSE)
    /\ life.hist[2].op = "aclose"
    /\ life.hist[3].op = "exit"
    /\ client.transport_initialized
    /\ ghost.disconnect_count = 0

\* C13: in a run of k >= 1 successive aclose calls that began with an owned,
\* initialized transport, disconnect has been called exactly once, and after
\* each call the client holds no transport and is not initialized.
C13_CloseIsIdempotent ==
    (Constructed /\ client.owns_transport /\ JustDid("aclose") /\ ghost.run.was_init) =>
        /\ ghost.run.closes >= 1
        /\ ghost.run.discs = 1
        /\ client.transport = 0
        /\ ~client.transport_initialized

\* Two successive closes of an initialized owned transport.
C13_Witness ==
    /\ Constructed
    /\ client.owns_transport
    /\ JustDid("aclose")
    /\ ghost.run.closes = 2
    /\ ghost.run.was_init
    /\ ghost.run.discs = 1
    /\ ghost.disconnect_count = 1

\* The program has made requests only.
OnlyRequests ==
    /\ caller \in {"none", "request"}
    /\ \A i \in 1..Len(life.hist) : life.hist[i].op = "request"

\* Every call of connect that has ended has returned normally.
ConnectsSucceeded ==
    ghost.connect_ok + Cardinality({t \in Tasks : tasks[t].pc = "connect"}) = ghost.connect_count

\* C14: on a client with an owned transport, over successive requests with
\* connect succeeding and no close, the factory creates one transport, on
\* the first request, connect is called once, and every send is made on
\* that transport.
C14_TransportIsReused ==
    (Constructed /\ client.owns_transport /\ OnlyRequests /\ ConnectsSucceeded) =>
        /\ ghost.used \subseteq {1}
        /\ IF Len(life.hist) = 0 /\ caller = "none"
           THEN ghost.create_count = 0 /\ ghost.connect_count = 0
           ELSE ghost.create_count = 1 /\ ghost.connect_count = 1 /\ client.transport = 1

\* Three successive requests, the second of which failed in send, used one
\* transport, connected once.
C14_Witness ==
    /\ Constructed
    /\ client.owns_transport
    /\ OnlyRequests
    /\ caller = "none"
    /\ Len(life.hist) = 3
    /\ life.hist[2].out = "err"
    /\ life.hist[3].out = "ok"
    /\ ghost.connect_count = 1
    /\ ghost.send_count = 3

\* The program entered the scope of an owned client as its first operation
\* and has made only requests and batches from position 2 to position n.
BodyUpTo(n) ==
    /\ Constructed
    /\ client.owns_transport
    /\ Len(life.hist) >= n
    /\ n >= 1
    /\ life.hist[1] = Op("enter", "ok", FALSE)
    /\ \A i \in 2..n : life.hist[i].op \in {"request", "batch"}

\* C15: entering the scope of an owned client connects once; the requests
\* of the body do not connect again and nothing is disconnected before the
\* exit; the exit, after a body that ended normally or by raising, calls
\* disconnect once.
C15_ScopeConnectsAndDisconnectsOnce ==
    /\ (BodyUpTo(Len(life.hist)) /\ caller \in {"none", "request", "batch"}) =>
          /\ ghost.connect_count = 1
          /\ ghost.disconnect_count = 0
          /\ client.transport_initialized
    /\ (JustDid("exit") /\ BodyUpTo(Len(life.hist) - 1)) =>
          /\ ghost.connect_count = 1
          /\ ghost.disconnect_count = 1

\* The body made a request that failed and ended by raising; the exit
\* disconnected the transport.
C15_Witness ==
    /\ JustDid("exit")
    /\ BodyUpTo(2)
    /\ Len(life.hist) = 3
    /\ life.hist[2] = Op("request", "err", FALSE)
    /\ life.hist[3].raised
    /\ ghost.disconnect_count = 1

--------------------------------------------------------------------------
\* Properties of the errors raised to the caller.

\* v is an error of the client taxonomy: a PynectorError or one of its kinds.
InTaxonomy(v) == IsInstance(v, "PynectorError")

\* C16 as stated: whatever request, batch_request or request_with_retry
\* raises to the caller is an error of the client taxonomy.
C16_OnlyTaxonomyErrors ==
    /\ BatchRaised => InTaxonomy(batch.out)
    /\ (retry.pc = "done" /\ retry.out.tag # "ok") => InTaxonomy(retry.out)
    /\ (caller = "request" /\ tasks[1].pc = "done" /\ tasks[1].out.tag # "ok") => InTaxonomy(tasks[1].out)

\* C17: the constructor raises ConfigurationError when no transport is
\* injected and the transport type is not registered; it constructs the
\* client in every other case, so with an injected transport it does not
\* look the transport type up.  The client it returns holds the injected
\* transport, owns the transport only when none was injected, and is not
\* initialized.
C17_ConstructorValidatesOwnedType ==
    life.ctor.done =>
        LET a == life.ctor.args
        IN /\ (a.transport = 0 /\ ~a.registered) =>
                 /\ life.ctor.out.tag = "err"
                 /\ life.ctor.out.kind = "ConfigurationError"
                 /\ client = NoneV
           /\ (a.transport # 0 \/ a.registered) => life.ctor.out.tag = "ok"
           /\ (Constructed /\ caller = "none" /\ Len(life.hist) = 0) =>
                 /\ client.transport = a.transport
                 /\ client.owns_transport = (a.transport = 0)
                 /\ ~client.transport_initialized

\* A client with no injected transport and an unregistered type was refused.
C17_Witness ==
    /\ life.ctor.done
    /\ life.ctor.args.transport = 0
    /\ ~life.ctor.args.registered
    /\ life.ctor.out.tag = "err"
    /\ life.ctor.out.kind = "ConfigurationError"

\* C18 as stated: batch_request with an empty request list returns an empty
\* list and calls no operation of the transport, whatever max_concurrency,
\* timeout and raise_on_error are.
C18_EmptyBatchReturnsEmpty ==
    (caller = "batch" /\ batch.pc = "done" /\ Len(batch.requests) = 0) =>
        /\ batch.out = [tag |-> "list", items |-> <<>>]
        /\ ghost.create_count = 0
        /\ ghost.connect_count = 0
        /\ ghost.send_count = 0

--------------------------------------------------------------------------
\* Properties of the configuration (checked under SpecRequest).

\* The timeout the claim expects for the running request: the argument when
\* given, else the config mapping's, else the environment's, else none.
ExpectedTimeout ==
    IF req.timeout # NoneT THEN req.timeout
    ELSE IF client.config_timeout # Absent THEN client.config_timeout
    ELSE IF client.env_timeout # NoneT THEN client.env_timeout
    ELSE NoneT

\* C19: the timeout of a running request is the argument when given, else
\* the instance configuration's, else the environment's, else none; and the
\* request runs under a deadline exactly when that value is a positive one.
C19_TimeoutResolutionOrder ==
    (caller = "request" /\ tasks[1].pc \in InFlight \cup {"body_done"}) =>
        /\ tasks[1].timeout = ExpectedTimeout
        /\ (tasks[1].scope # "none") <=> (ExpectedTimeout > 0)

\* No argument, a timeout in the configuration and another in the
\* environment: the configuration's is used.
C19_Witness ==
    /\ caller = "request"
    /\ tasks[1].pc = "recv"
    /\ req.timeout = NoneT
    /\ client.config_timeout = 2
    /\ client.env_timeout = 3
    /\ tasks[1].timeout = 2
    /\ tasks[1].scope = "open"

--------------------------------------------------------------------------
\* Properties of the factory registry (checked under SpecRegistry).

\* The factory of the latest register call made under name, 0 when there is none.
LastRegistered(name) ==
    LET at == {i \in 1..Len(reg.log) : reg.log[i][1] = name}
    IN IF at = {} THEN 0
       ELSE reg.log[CHOOSE i \in at : \A j \in at : j <= i][2]

\* C20: get returns the factory most recently registered under the name and
\* create_transport what that factory creates for the options; for a name
\* never registered both raise KeyError; neither changes the registry; and
\* register changes the entry of no other name.
C20_RegistryIsLastWriterWins ==
    LET n == reg.last.name
        f == LastRegistered(n)
    IN /\ reg.last.op = "get" =>
             /\ reg.out = IF f = 0 THEN Err("KeyError", FALSE, 0, 0) ELSE Ok(f)
             /\ reg.factories = reg.before
       /\ reg.last.op = "create_transport" =>
             /\ reg.out = IF f = 0 THEN Err("KeyError", FALSE, 0, 0) ELSE Ok(<<f, reg.last.options>>)
             /\ reg.factories = reg.before
       /\ reg.last.op = "register" =>
             \A m \in Names \ {n} :
                 /\ (m \in DOMAIN reg.factories) <=> (m \in DOMAIN reg.before)
                 /\ m \in DOMAIN reg.before => reg.factories[m] = reg.before[m]

\* "http" was registered twice, with another name registered in between,
\* and get returns the factory registered last.
C20_Witness ==
    /\ reg.log = << <<"http", 1>>, <<"sdk", 1>>, <<"http", 2>> >>
    /\ reg.last.op = "get"
    /\ reg.last.name = "http"
    /\ reg.out = Ok(2)

--------------------------------------------------------------------------
\* The transport contract (pynector.transport.http.transport and
\* pynector.transport.sdk.transport), used directly as the transport tests
\* do: a program makes any sequence of connect, disconnect, send and receive
\* calls on one transport.  The backend behind it (the HTTP client, the
\* vendor SDK adapter) is the environment: it answers each attempt with a
\* status or a network exception.

MaxHttpRetries == 2

\* The default retry_status_codes, and a custom set.
RetryStatusCodeSets == {{429, 500, 502, 503, 504}, {500, 502}}

\* What the HTTP client can answer to one attempt.
HttpResponse(status) == [tag |-> "response", status |-> status]
NetworkException == [tag |-> "network"]
AttemptOutcomes == {HttpResponse(s) : s \in {200, 404, 429, 503}} \cup {NetworkException}

\* What the vendor adapter can raise from complete or stream, already
\* translated at the boundary.
SdkFailures == {"AuthenticationError", "RateLimitError", "ConnectionError", "SdkTransportError"}
ConnectFailures == {"ConnectionError", "ConnectionTimeoutError"}

\* An error raised by a transport.
Raised(kind) == [tag |-> "err", kind |-> kind]

\* HTTPTransport(max_retries=m, retry_status_codes=codes), with a message
\* type bound or not; SdkTransport().  Both start unconnected.
NewTransport(backend, m, codes, bound) ==
    [backend |-> backend, state |-> "New", max_retries |-> m, retry_status_codes |-> codes,
     message_type |-> bound, last |-> [op |-> "none", before |-> "New", out |-> NoneV, log |-> <<>>]]

\* _handle_error_response: the error of a status.
HandleErrorResponse(status) ==
    CASE status = 401 -> "HTTPUnauthorizedError"
      [] status = 403 -> "HTTPForbiddenError"
      [] status = 404 -> "HTTPNotFoundError"
      [] status = 408 -> "HTTPTimeoutError"
      [] status = 429 -> "HTTPTooManyRequestsError"
      [] status >= 500 -> "HTTPServerError"
      [] OTHER -> "HTTPClientError"

IsRetryCandidate(t, o) == o.tag = "network" \/ o.status \in t.retry_status_codes

ErrorOf(o) == IF o.tag = "network" THEN "ConnectionError" ELSE HandleErrorResponse(o.status)

\* The end of the attempt loop on outcome o.
SendOutcome(t, o) ==
    IF o.tag = "response" /\ ~IsRetryCandidate(t, o) /\ o.status < 400
    THEN Ok(o.status)
    ELSE Raised(ErrorOf(o))

\* Faulty variant of MayRetry: one try fewer.
MayRetryOneLess(t, attempt) == attempt + 1 < t.max_retries

\* Whether the loop goes round again after attempt number `attempt` (from
\* 0) ended in a retry candidate.
MayRetry(t, attempt) == attempt < t.max_retries

\* The attempt loop of send: script[k] is what the backend answers to the
\* k-th attempt.  On a retry candidate with tries left the transport sleeps
\* retry_backoff_factor * 2^attempt and goes round again; otherwise the loop
\* ends.  The value is the number of attempts made.
RECURSIVE HttpAttempts(_, _, _)
HttpAttempts(t, script, attempt) ==
    IF IsRetryCandidate(t, script[attempt + 1]) /\ MayRetry(t, attempt)
    THEN HttpAttempts(t, script, attempt + 1)
    ELSE attempt + 1

Called(t, op, out, log) ==
    [t EXCEPT !.last = [op |-> op, before |-> t.state, out |-> out, log |-> log]]

\* Faulty variant of HttpSend: the state is not looked at.
HttpSendUnguarded(t, script) ==
    LET n == HttpAttempts(t, script, 0)
    IN Called(t, "send", SendOutcome(t, script[n]), SubSeq(script, 1, n))

\* HTTPTransport.send: requires Connected, then runs the attempt loop.
HttpSend(t, script) ==
    IF t.state # "Connected" THEN Called(t, "send", Raised("ConnectionError"), <<>>)
    ELSE LET n == HttpAttempts(t, script, 0)
         IN Called(t, "send", SendOutcome(t, script[n]), SubSeq(script, 1, n))

\* SdkTransport.send (adapter.complete) and SdkTransport.receive
\* (adapter.stream): one call of the adapter, whose failure is translated.
SdkCall(t, op, o) ==
    IF t.state # "Connected" THEN Called(t, op, Raised("ConnectionError"), <<>>)
    ELSE Called(t, op, IF o = "ok" THEN Ok(0) ELSE Raised(o), <<o>>)

\* connect(): a no-op on a connected transport; otherwise the backend
\* client is built, which can fail.
Connect(o) ==
    /\ xport' = IF xport.state = "Connected" THEN Called(xport, "connect", Ok(0), <<>>)
                ELSE IF o = "ok" THEN [Called(xport, "connect", Ok(0), <<>>) EXCEPT !.state = "Connected"]
                ELSE Called(xport, "connect", Raised(o), <<>>)
    /\ UNCHANGED <<clientVars, conc, wire>>

\* disconnect(): drops the backend client; never raises.
Disconnect ==
    /\ xport' = [Called(xport, "disconnect", Ok(0), <<>>) EXCEPT !.state = "Disconnected"]
    /\ UNCHANGED <<clientVars, conc, wire>>

\* send(message): the HTTP attempt loop over what the backend answers, or
\* one call of the SDK adapter.
Send ==
    /\ \/ /\ xport.backend = "http"
          /\ \E script \in [1..(xport.max_retries + 1) -> AttemptOutcomes] :
                xport' = HttpSend(xport, script)
       \/ /\ xport.backend = "sdk"
          /\ \E o \in {"ok"} \cup SdkFailures : xport' = SdkCall(xport, "send", o)
    /\ UNCHANGED <<clientVars, conc, wire>>

\* receive(): the HTTP transport emits one message per recorded response
\* and makes no request; the SDK transport calls the adapter's stream.
Receive ==
    /\ \/ /\ xport.backend = "http"
          /\ xport' = IF xport.state # "Connected" THEN Called(xport, "receive", Raised("ConnectionError"), <<>>)
                      ELSE IF ~xport.message_type THEN Called(xport, "receive", Raised("HTTPTransportError"), <<>>)
                      ELSE Called(xport, "receive", Ok(0), <<>>)
       \/ /\ xport.backend = "sdk"
          /\ \E o \in {"ok"} \cup SdkFailures : xport' = SdkCall(xport, "receive", o)
    /\ UNCHANGED <<clientVars, conc, wire>>

ClientIdle ==
    /\ client = NoneV
    /\ tasks = [t \in Tasks |-> IdleTask]
    /\ batch = NoBatch
    /\ retry = NoRetry
    /\ req = NoReq
    /\ caller = "none"
    /\ reg = NoReg
    /\ life = NoLife
    /\ ghost = NoGhost

InitTransport ==
    /\ ClientIdle
    /\ conc = NoneV
    /\ wire = NoneV
    /\ \/ \E m \in 0..MaxHttpRetries, codes \in RetryStatusCodeSets, bound \in BOOLEAN :
            xport = NewTransport("http", m, codes, bound)
       \/ xport = NewTransport("sdk", 0, {}, FALSE)

NextTransport ==
    \/ \E o \in {"ok"} \cup ConnectFailures : Connect(o)
    \/ Disconnect
    \/ Send
    \/ Receive

SpecTransport == InitTransport /\ [][NextTransport]_vars

\* The requests the last call made on the backend.
BackendRequests == Len(xport.last.log)

\* C21: send and receive succeed only on a connected transport; on a
\* transport that was never connected or has been disconnected each raises
\* ConnectionError and makes no request on the backend.
C21_SendReceiveNeedConnected ==
    xport.last.op \in {"send", "receive"} =>
        /\ xport.last.out.tag = "ok" => xport.last.before = "Connected"
        /\ xport.last.before # "Connected" =>
              xport.last.out = Raised("ConnectionError") /\ BackendRequests = 0

C21_Witness ==
    /\ xport.last.op = "send"
    /\ xport.last.before = "Disconnected"
    /\ xport.last.out = Raised("ConnectionError")

\* C22: HTTP send goes round again only after a retry candidate; it ends
\* without error at the first successful status, and after max_retries + 1
\* retry candidates it raises the error of the last one.
C22_HttpSendRetries ==
    (xport.backend = "http" /\ xport.last.op = "send" /\ xport.last.before = "Connected") =>
        LET log == xport.last.log
            n == Len(log)
            candidate(k) == IsRetryCandidate(xport, log[k])
            success(k) == log[k].tag = "response" /\ ~candidate(k) /\ log[k].status < 400
        IN /\ n \in 1..(xport.max_retries + 1)
           /\ \A k \in 1..(n - 1) : candidate(k)
           /\ success(n) => xport.last.out.tag = "ok"
           /\ (\A k \in 1..n : candidate(k)) =>
                 /\ n = xport.max_retries + 1
                 /\ xport.last.out = Raised(ErrorOf(log[n]))
                 /\ (log[n].tag = "response" /\ log[n].status >= 500) =>
                       xport.last.out = Raised("HTTPServerError")

C22_Witness ==
    /\ xport.backend = "http"
    /\ xport.max_retries = 2
    /\ xport.last.op = "send"
    /\ xport.last.log = <<HttpResponse(503), HttpResponse(503), HttpResponse(503)>>
    /\ xport.last.out = Raised("HTTPServerError")

--------------------------------------------------------------------------
\* The resource primitives (pynector.concurrency.primitives) under
\* contention, as the primitive tests use them: a task group starts up to
\* MaxWorkers tasks that run the same function over one primitive.  A task
\* runs from one suspension point to the next; the suspension points are
\* the acquire of a primitive, Event.wait and sleep.  Waiters are served in
\* the order they arrived.

MaxWorkers == 3
MaxTokens == 2
Workers == 1..MaxWorkers

NewCapacityLimiter(n) == [total_tokens |-> n, borrowers |-> {}, waiters |-> <<>>]

BorrowedTokens(l) == Cardinality(l.borrowers)
AvailableTokens(l) == l.total_tokens - BorrowedTokens(l)

\* A task of the group: where it is, the value it read, and how its
\* acquire or wait went: whether it found the primitive unavailable,
\* whether it suspended, and whether a release or a set woke it.
NewWorker == [pc |-> "start", current |-> 0, found_full |-> FALSE, suspended |-> FALSE, woken |-> FALSE]

\* Task t goes to the wait queue of the primitive and suspends.
Suspend(c, t) ==
    [c EXCEPT !.prim.waiters = Append(@, t), !.work[t].pc = "waiting", !.work[t].suspended = TRUE]

\* Task t, the head of the queue, is given what has been released.
Resume(c, t) ==
    [c EXCEPT !.prim.waiters = Tail(@), !.work[t].pc = "acquired", !.work[t].woken = TRUE]

\* Faulty variant of LockAcquire: a held lock is taken all the same.
LockAcquireHeld(c, t) == [c EXCEPT !.prim.locked = TRUE, !.work[t].pc = "acquired"]

\* Lock.acquire: suspends until the lock is free.
LockAcquire(c, t) ==
    IF ~c.prim.locked
    THEN [c EXCEPT !.prim.locked = TRUE, !.work[t].pc = "acquired"]
    ELSE Suspend(c, t)

\* Lock.release: synchronous; the lock passes to the first waiter.
LockRelease(c, t) ==
    IF c.prim.waiters = <<>>
    THEN [c EXCEPT !.prim.locked = FALSE]
    ELSE Resume(c, Head(c.prim.waiters))

\* Semaphore.acquire: decrements, suspending at zero.
SemaphoreAcquire(c, t) ==
    IF c.prim.value > 0
    THEN [c EXCEPT !.prim.value = @ - 1, !.work[t].pc = "acquired"]
    ELSE Suspend(c, t)

\* Faulty variant of SemaphoreRelease: no waiter is woken.
SemaphoreReleaseSilent(c, t) == [c EXCEPT !.prim.value = @ + 1]

\* Semaphore.release: increments and wakes one waiter, which decrements.
SemaphoreRelease(c, t) ==
    IF c.prim.waiters = <<>>
    THEN [c EXCEPT !.prim.value = @ + 1]
    ELSE Resume(c, Head(c.prim.waiters))

\* Faulty variant of CapacityLimiterAcquire: the tokens are not counted.
CapacityLimiterAcquireUncounted(c, t) ==
    [c EXCEPT !.prim.borrowers = @ \cup {t}, !.work[t].pc = "acquired"]

\* CapacityLimiter.acquire: borrows a token, suspending when every token is
\* borrowed.
CapacityLimiterAcquire(c, t) ==
    IF AvailableTokens(c.prim) > 0
    THEN [c EXCEPT !.prim.borrowers = @ \cup {t}, !.work[t].pc = "acquired"]
    ELSE Suspend(c, t)

\* CapacityLimiter.release: returns the token, which the first waiter borrows.
CapacityLimiterRelease(c, t) ==
    LET returned == [c EXCEPT !.prim.borrowers = @ \ {t}]
    IN IF c.prim.waiters = <<>>
       THEN returned
       ELSE LET w == Head(c.prim.waiters)
            IN Resume([returned EXCEPT !.prim.borrowers = @ \cup {w}], w)

\* Event.wait: returns at once when the event is set, else suspends.
EventWait(c, t) ==
    IF c.prim.flag
    THEN [c EXCEPT !.work[t].pc = "acquired"]
    ELSE [c EXCEPT !.prim.waiters = @ \cup {t}, !.work[t].pc = "waiting", !.work[t].suspended = TRUE]

\* Faulty variant of EventSet: only one of the waiters is woken.
EventSetWakesOne(c) ==
    IF c.prim.waiters = {} THEN [c EXCEPT !.prim.flag = TRUE, !.mem.set_called = TRUE]
    ELSE LET w == CHOOSE t \in c.prim.waiters : TRUE
         IN [c EXCEPT !.prim.flag = TRUE, !.prim.waiters = @ \ {w}, !.mem.set_called = TRUE,
                      !.work = [t \in DOMAIN @ |-> IF t = w THEN [@[t] EXCEPT !.pc = "acquired", !.woken = TRUE] ELSE @[t]]]

\* Event.set: the event is set and stays set; every waiter is woken.
EventSet(c) ==
    [c EXCEPT !.prim.flag = TRUE, !.prim.waiters = {}, !.mem.set_called = TRUE,
              !.work = [t \in DOMAIN @ |->
                           IF t \in c.prim.waiters THEN [@[t] EXCEPT !.pc = "acquired", !.woken = TRUE] ELSE @[t]]]

\* Exit of `async with primitive:` by task t.
Release(c, t) ==
    CASE c.prog = "lock" -> LockRelease(c, t)
      [] c.prog = "semaphore" -> SemaphoreRelease(c, t)
      [] c.prog = "limiter" -> CapacityLimiterRelease(c, t)

\* Whether an acquire (a wait, for an event) made now has to suspend.
Unavailable(c) ==
    CASE c.prog = "lock" -> c.prim.locked
      [] c.prog = "semaphore" -> c.prim.value = 0
      [] c.prog \in {"limiter", "parallel"} -> BorrowedTokens(c.prim) = c.prim.total_tokens
      [] c.prog = "event" -> ~c.prim.flag

\* The call of acquire or wait by task t, noted with what it found.
Calling(c, t) == [c EXCEPT !.work[t].found_full = Unavailable(c)]

At(t, pc) == t \in DOMAIN conc.work /\ conc.work[t].pc = pc

\* increment, task: `async with lock:` / `async with sem:` / `async with limiter:`
TaskAcquire(t) ==
    /\ conc.prog \in {"lock", "semaphore", "limiter"}
    /\ At(t, "start")
    /\ conc' = CASE conc.prog = "lock" -> LockAcquire(Calling(conc, t), t)
                 [] conc.prog = "semaphore" -> SemaphoreAcquire(Calling(conc, t), t)
                 [] conc.prog = "limiter" -> CapacityLimiterAcquire(Calling(conc, t), t)
    /\ UNCHANGED <<clientVars, xport, wire>>

\* increment: current = counter; await anyio.sleep(0.01)
IncrementRead(t) ==
    /\ conc.prog = "lock"
    /\ At(t, "acquired")
    /\ conc' = [conc EXCEPT !.work[t].current = conc.mem.counter, !.work[t].pc = "sleeping"]
    /\ UNCHANGED <<clientVars, xport, wire>>

\* increment: counter = current + 1; results.append(task_id); the lock is released
IncrementWrite(t) ==
    /\ conc.prog = "lock"
    /\ At(t, "sleeping")
    /\ conc' = Release([conc EXCEPT !.mem.counter = conc.work[t].current + 1, !.work[t].pc = "done"], t)
    /\ UNCHANGED <<clientVars, xport, wire>>

\* task: active += 1; max_active = max(max_active, active); await anyio.sleep(0.1)
TaskWork(t) ==
    /\ conc.prog \in {"semaphore", "limiter"}
    /\ At(t, "acquired")
    /\ conc' = [conc EXCEPT !.mem.active = @ + 1, !.mem.max_active = IF @ > conc.mem.active THEN @ ELSE conc.mem.active + 1,
                            !.work[t].pc = "sleeping"]
    /\ UNCHANGED <<clientVars, xport, wire>>

\* task: active -= 1; the semaphore or the token is released
TaskEnd(t) ==
    /\ conc.prog \in {"semaphore", "limiter"}
    /\ At(t, "sleeping")
    /\ conc' = Release([conc EXCEPT !.mem.active = @ - 1, !.work[t].pc = "done"], t)
    /\ UNCHANGED <<clientVars, xport, wire>>

\* waiter: results.append("waiting"); await event.wait()
WaiterWait(t) ==
    /\ conc.prog = "event"
    /\ At(t, "start")
    /\ conc' = EventWait(Calling(conc, t), t)
    /\ UNCHANGED <<clientVars, xport, wire>>

\* waiter: results.append("done")
WaiterDone(t) ==
    /\ conc.prog = "event"
    /\ At(t, "acquired")
    /\ conc' = [conc EXCEPT !.work[t].pc = "done"]
    /\ UNCHANGED <<clientVars, xport, wire>>

\* The body of the task group: event.set()
BodySet ==
    /\ conc.prog = "event"
    /\ conc' = EventSet(conc)
    /\ UNCHANGED <<clientVars, xport, wire>>

\* A contention test: one primitive, k tasks, and the locals they share.
Program(prog, prim, k) ==
    [prog |-> prog, prim |-> prim, work |-> [t \in 1..k |-> NewWorker],
     mem |-> [active |-> 0, max_active |-> 0, counter |-> 0, set_called |-> FALSE]]

InitContention ==
    /\ ClientIdle
    /\ xport = NoneV
    /\ wire = NoneV
    /\ \E k \in Workers :
          \/ conc = Program("lock", [locked |-> FALSE, waiters |-> <<>>], k)
          \/ \E n \in 1..MaxTokens :
                conc = Program("semaphore", [initial_value |-> n, value |-> n, waiters |-> <<>>], k)
          \/ \E n \in 1..MaxTokens : conc = Program("limiter", NewCapacityLimiter(n), k)
          \/ conc = Program("event", [flag |-> FALSE, waiters |-> {}], k)

NextContention ==
    \/ \E t \in Workers : TaskAcquire(t)
    \/ \E t \in Workers : IncrementRead(t)
    \/ \E t \in Workers : IncrementWrite(t)
    \/ \E t \in Workers : TaskWork(t)
    \/ \E t \in Workers : TaskEnd(t)
    \/ \E t \in Workers : WaiterWait(t)
    \/ \E t \in Workers : WaiterDone(t)
    \/ BodySet

SpecContention == InitContention /\ [][NextContention]_vars

\* The event loop runs a task that can run.
SpecContentionFair == SpecContention /\ WF_vars(NextContention)

\* The tasks of the running program, and those inside the guarded region.
Started == DOMAIN conc.work
Holders == {t \in Started : conc.work[t].pc \in {"acquired", "sleeping"}}
AllDone == \A t \in Started : conc.work[t].pc = "done"

\* A task that found the primitive unavailable is suspended or was woken
\* by a release; one that found it available never suspended.
SuspendsUntilWoken ==
    \A t \in Started :
        /\ conc.work[t].found_full => conc.work[t].pc = "waiting" \/ conc.work[t].woken
        /\ (conc.work[t].pc # "start" /\ ~conc.work[t].found_full) => ~conc.work[t].suspended

\* C23: with total_tokens = n the borrowed tokens stay within 0..n,
\* borrowed plus available is n, and an acquire made when every token is
\* borrowed suspends until a release hands it a token.
C23_LimiterAccounting ==
    conc.prog = "limiter" =>
        /\ BorrowedTokens(conc.prim) \in 0..conc.prim.total_tokens
        /\ BorrowedTokens(conc.prim) + AvailableTokens(conc.prim) = conc.prim.total_tokens
        /\ conc.prim.borrowers = Holders
        /\ SuspendsUntilWoken
        /\ \A t \in Started :
              conc.work[t].pc = "waiting" => BorrowedTokens(conc.prim) = conc.prim.total_tokens

C23_Witness ==
    /\ conc.prog = "limiter"
    /\ conc.prim.total_tokens = 2
    /\ BorrowedTokens(conc.prim) = 2
    /\ \E t \in Started : conc.work[t].found_full /\ conc.work[t].woken /\ t \in conc.prim.borrowers

\* C24: under a Semaphore(n) at most n tasks are inside the guarded region
\* at any moment, and every task eventually enters it and leaves it.
C24_SemaphoreBoundsAndServes ==
    /\ [](conc.prog = "semaphore" =>
            /\ Cardinality(Holders) <= conc.prim.initial_value
            /\ conc.mem.max_active <= conc.prim.initial_value)
    /\ \A t \in Workers : <>((conc.prog = "semaphore" /\ t \in Started) => conc.work[t].pc = "done")

C24_Witness ==
    /\ conc.prog = "semaphore"
    /\ conc.prim.initial_value = 2
    /\ Cardinality(Started) = 3
    /\ AllDone
    /\ conc.mem.max_active = 2
    /\ \E t \in Started : conc.work[t].suspended

\* C25: at most one task holds the lock, an acquire of a held lock suspends
\* until the holder releases, and k tasks that each read the counter,
\* sleep and write it back plus one under the lock leave it at k.
C25_LockExcludes ==
    conc.prog = "lock" =>
        /\ Cardinality(Holders) <= 1
        /\ SuspendsUntilWoken
        /\ (Holders # {}) = conc.prim.locked
        /\ AllDone => conc.mem.counter = Cardinality(Started)

C25_Witness ==
    /\ conc.prog = "lock"
    /\ Cardinality(Started) = 3
    /\ AllDone
    /\ conc.mem.counter = 3
    /\ \A t \in Started : t # 1 => conc.work[t].suspended

\* C26: once set has been called the event stays set, no task that was
\* waiting is left suspended, and a wait called afterwards returns without
\* suspending.
C26_EventIsOneShot ==
    conc.prog = "event" =>
        /\ conc.mem.set_called => conc.prim.flag
        /\ conc.mem.set_called => \A t \in Started : conc.work[t].pc # "waiting"
        /\ \A t \in Started :
              /\ conc.work[t].suspended <=> (conc.work[t].pc # "start" /\ conc.work[t].found_full)
              /\ (conc.work[t].suspended /\ conc.mem.set_called) => conc.work[t].woken

C26_Witness ==
    /\ conc.prog = "event"
    /\ conc.mem.set_called
    /\ AllDone
    /\ \E t, u \in Started : conc.work[t].woken /\ conc.work[u].woken /\ t # u
    /\ \E t \in Started : ~conc.work[t].suspended

--------------------------------------------------------------------------
\* A deadline scope around a task group (pynector.concurrency.cancel and
\* pynector.concurrency.task), as test_task_group_with_cancellation and
\* test_move_on_after use them:
\*
\*     with move_on_after(t):
\*         async with create_task_group() as tg:
\*             await tg.start_soon(task, 1) ...
\*
\* The host task runs the body; with no child to start, the body is the
\* slow operation itself.  Each child sleeps and then completes or raises.
\* The deadline is a timer: it can fire whenever the host is suspended
\* inside the scope, and never between the end of the body and the exit of
\* the scope, which are one run of the host.

Terminated == {"completed", "failed", "cancelled"}

NewScopeProgram(k) ==
    [prog |-> "scope",
     scope |-> [state |-> "open", cancel_called |-> FALSE],
     group |-> [state |-> IF k = 0 THEN "none" ELSE "open", cancelled |-> FALSE],
     host |-> [pc |-> IF k = 0 THEN "sleeping" ELSE "body", error |-> FALSE],
     work |-> [t \in 1..k |-> [pc |-> "unspawned"]],
     mem |-> [suspended_at_deadline |-> {}, host_at_deadline |-> "none", raised |-> "none"]]

\* The group cancels its scope: every child that has not terminated gets
\* the cancellation at the suspension point it is in, or at its first one.
CancelGroup(c) ==
    [c EXCEPT !.group.cancelled = TRUE,
              !.work = [t \in DOMAIN @ |->
                           IF @[t].pc \in {"ready", "sleeping"} THEN [@[t] EXCEPT !.pc = "cancelling"] ELSE @[t]]]

\* Faulty variant of MoveOnAfterExit: the cancellation is surfaced, as
\* fail_after does.
MoveOnAfterExitRaises(c, exc) ==
    [c EXCEPT !.scope.state = "closed",
              !.host.pc = IF exc = "none" THEN "after" ELSE "raised",
              !.mem.raised = exc]

\* Exit of the move_on_after scope with exception exc ("none", "cancelled"
\* or "error"): the scope's own cancellation is suppressed and the code
\* after the scope continues; any other exception propagates.
MoveOnAfterExit(c, exc) ==
    LET absorbed == exc = "cancelled" /\ c.scope.cancel_called
    IN [c EXCEPT !.scope.state = "closed",
                 !.host.pc = IF exc = "none" \/ absorbed THEN "after" ELSE "raised",
                 !.mem.raised = IF absorbed THEN "none" ELSE exc]

\* Faulty variant of ChildrenTerminated: the exit does not wait.
ChildrenNotAwaited(c) == TRUE

\* What the exit of the group waits for.
ChildrenTerminated(c) == \A t \in DOMAIN c.work : c.work[t].pc \in Terminated \cup {"unspawned"}

\* await tg.start_soon(task, t): children are started in order.
StartSoon(t) ==
    /\ conc.prog = "scope"
    /\ conc.host.pc = "body"
    /\ t \in DOMAIN conc.work
    /\ conc.work[t].pc = "unspawned"
    /\ \A u \in 1..(t - 1) : conc.work[u].pc # "unspawned"
    /\ conc' = [conc EXCEPT !.work[t].pc = "ready"]
    /\ UNCHANGED <<clientVars, xport, wire>>

\* The body of the group ends, normally or with an error of its own; the
\* group stops accepting tasks and waits for its children.
BodyEnd(raised) ==
    /\ conc.prog = "scope"
    /\ conc.host.pc = "body"
    /\ \A t \in DOMAIN conc.work : conc.work[t].pc # "unspawned"
    /\ LET closing == [conc EXCEPT !.host.pc = "joining", !.host.error = raised, !.group.state = "closing"]
       IN conc' = IF raised THEN CancelGroup(closing) ELSE closing
    /\ UNCHANGED <<clientVars, xport, wire>>

\* task: the first run of a child, up to await anyio.sleep(0.5)
ChildRun(t) ==
    /\ conc.prog = "scope"
    /\ At(t, "ready")
    /\ conc' = [conc EXCEPT !.work[t].pc = "sleeping"]
    /\ UNCHANGED <<clientVars, xport, wire>>

\* task: the sleep is over; the child completes, or raises an error, on
\* which the group cancels its scope.
ChildWake(t, failed) ==
    /\ conc.prog = "scope"
    /\ At(t, "sleeping")
    /\ conc' = IF failed
               THEN CancelGroup([conc EXCEPT !.work[t].pc = "failed"])
               ELSE [conc EXCEPT !.work[t].pc = "completed"]
    /\ UNCHANGED <<clientVars, xport, wire>>

\* task: except get_cancelled_exc_class(): results.append("cancelled"); raise
ChildUnwind(t) ==
    /\ conc.prog = "scope"
    /\ At(t, "cancelling")
    /\ conc' = [conc EXCEPT !.work[t].pc = "cancelled"]
    /\ UNCHANGED <<clientVars, xport, wire>>

\* The deadline of the scope passes while the host is suspended in it: the
\* scope is cancelled with everything inside it.
ScopeDeadline ==
    /\ conc.prog = "scope"
    /\ conc.scope.state = "open"
    /\ ~conc.scope.cancel_called
    /\ conc.host.pc \in {"body", "sleeping", "joining"}
    /\ LET noted == [conc EXCEPT !.scope.cancel_called = TRUE,
                                 !.mem.suspended_at_deadline = {t \in DOMAIN conc.work : conc.work[t].pc = "sleeping"},
                                 !.mem.host_at_deadline = conc.host.pc,
                                 !.host.pc = CASE @ = "sleeping" -> "cancelling"
                                               [] @ = "body" -> "joining"
                                               [] OTHER -> @,
                                 !.group.state = IF @ = "open" THEN "closing" ELSE @]
       IN conc' = CancelGroup(noted)
    /\ UNCHANGED <<clientVars, xport, wire>>

\* slow_operation: the sleep is over; the body ends and the scope exits.
HostWake ==
    /\ conc.prog = "scope"
    /\ conc.host.pc = "sleeping"
    /\ conc' = MoveOnAfterExit(conc, "none")
    /\ UNCHANGED <<clientVars, xport, wire>>

\* slow_operation: except: results.append("cancelled"); raise.  The body
\* catches the cancellation (results.append("caught")) or lets it reach
\* the exit of the scope.
HostUnwind(caught) ==
    /\ conc.prog = "scope"
    /\ conc.host.pc = "cancelling"
    /\ conc' = MoveOnAfterExit(conc, IF caught THEN "none" ELSE "cancelled")
    /\ UNCHANGED <<clientVars, xport, wire>>

\* Exit of the task group, then of the scope around it: the group raises
\* an error of a child or of its body when there is one, and passes the
\* cancellation on when its scope was cancelled from outside.
GroupExit ==
    /\ conc.prog = "scope"
    /\ conc.host.pc = "joining"
    /\ ChildrenTerminated(conc)
    /\ LET errors == conc.host.error \/ \E t \in DOMAIN conc.work : conc.work[t].pc = "failed"
           exc == IF errors THEN "error" ELSE IF conc.scope.cancel_called THEN "cancelled" ELSE "none"
       IN conc' = MoveOnAfterExit([conc EXCEPT !.group.state = "closed"], exc)
    /\ UNCHANGED <<clientVars, xport, wire>>

InitScope ==
    /\ ClientIdle
    /\ xport = NoneV
    /\ wire = NoneV
    /\ \E k \in 0..MaxWorkers : conc = NewScopeProgram(k)

NextScope ==
    \/ \E t \in Workers : StartSoon(t)
    \/ \E raised \in BOOLEAN : BodyEnd(raised)
    \/ \E t \in Workers : ChildRun(t)
    \/ \E t \in Workers, failed \in BOOLEAN : ChildWake(t, failed)
    \/ \E t \in Workers : ChildUnwind(t)
    \/ ScopeDeadline
    \/ HostWake
    \/ \E caught \in BOOLEAN : HostUnwind(caught)
    \/ GroupExit

SpecScope == InitScope /\ [][NextScope]_vars

ScopeExited == conc.scope.state = "closed"
NoError == ~conc.host.error /\ \A t \in Started : conc.work[t].pc # "failed"

C28_NoChildOutlivesGroup ==
    (conc.prog = "scope" /\ conc.group.state = "closed") =>
        \A t \in Started : conc.work[t].pc \in Terminated \cup {"unspawned"}

C28_Witness ==
    /\ conc.prog = "scope"
    /\ conc.group.state = "closed"
    /\ conc.mem.raised = "error"
    /\ \E t, u, v \in Started :
          conc.work[t].pc = "failed" /\ conc.work[u].pc = "cancelled" /\ conc.work[v].pc = "completed"

--------------------------------------------------------------------------
\* The patterns (pynector.concurrency.patterns) as the pattern tests use
\* them: parallel_requests(items, fetch, max_concurrency), and a
\* ConnectionPool shared by the workers of a task group.

Urls == {"url1", "url2", "error"}

\* fetch: await anyio.sleep(0.1), then the response to the url, or
\* ValueError for the url "error".
Fetch(url) == IF url = "error" THEN Raised("ValueError") ELSE Ok([response |-> url])

NewParallelRequests(items, max_concurrency) ==
    [prog |-> "parallel", items |-> items, prim |-> NewCapacityLimiter(max_concurrency),
     work |-> [i \in 1..Len(items) |-> NewWorker],
     mem |-> [results |-> [i \in 1..Len(items) |-> NoneV], order |-> <<>>, error |-> NoneV,
              returned |-> FALSE, out |-> NoneV]]

\* Faulty variant of StoreResult: the result goes to the next free slot.
StoreResultInOrderOfCompletion(c, i, v) ==
    [c EXCEPT !.mem.results[Len(c.mem.order) + 1] = v, !.mem.order = Append(@, i)]

\* The child of item i stores what fn returned in slot i.
StoreResult(c, i, v) == [c EXCEPT !.mem.results[i] = v, !.mem.order = Append(@, i)]

\* The group cancels: every child that has not terminated is cancelled,
\* those waiting for a token included.
CancelRemaining(c) ==
    [c EXCEPT !.prim.waiters = <<>>,
              !.work = [i \in DOMAIN @ |->
                           IF @[i].pc \in {"start", "waiting", "acquired", "sleeping"}
                           THEN [@[i] EXCEPT !.pc = "cancelling"] ELSE @[i]]]

\* Exit of `async with limiter:` in a child, on every path.
LeaveLimiter(c, i) == IF i \in c.prim.borrowers THEN CapacityLimiterRelease(c, i) ELSE c

\* The first run of the child of item i: async with limiter
ParallelAcquire(i) ==
    /\ conc.prog = "parallel"
    /\ At(i, "start")
    /\ conc' = CapacityLimiterAcquire(Calling(conc, i), i)
    /\ UNCHANGED <<clientVars, xport, wire>>

\* The child calls fn(item), which suspends.
ParallelCall(i) ==
    /\ conc.prog = "parallel"
    /\ At(i, "acquired")
    /\ conc' = [conc EXCEPT !.work[i].pc = "sleeping"]
    /\ UNCHANGED <<clientVars, xport, wire>>

\* fn returns, and the child stores the result, or fn raises, and the
\* group cancels the remaining children.
ParallelReturn(i) ==
    /\ conc.prog = "parallel"
    /\ At(i, "sleeping")
    /\ LET r == Fetch(conc.items[i])
       IN conc' = IF r.tag = "ok"
                  THEN LeaveLimiter(StoreResult([conc EXCEPT !.work[i].pc = "done"], i, r.body), i)
                  ELSE CancelRemaining(LeaveLimiter([conc EXCEPT !.work[i].pc = "failed", !.mem.error = r], i))
    /\ UNCHANGED <<clientVars, xport, wire>>

\* A cancelled child unwinds, giving back the token it holds.
ParallelUnwind(i) ==
    /\ conc.prog = "parallel"
    /\ At(i, "cancelling")
    /\ conc' = LeaveLimiter([conc EXCEPT !.work[i].pc = "cancelled"], i)
    /\ UNCHANGED <<clientVars, xport, wire>>

\* Exit of the task group: the results are returned, or the error of the
\* failed child propagates.
ParallelExit ==
    /\ conc.prog = "parallel"
    /\ ~conc.mem.returned
    /\ \A i \in DOMAIN conc.work : conc.work[i].pc \in {"done", "failed", "cancelled"}
    /\ conc' = [conc EXCEPT !.mem.returned = TRUE,
                            !.mem.out = IF conc.mem.error # NoneV THEN conc.mem.error ELSE Ok(conc.mem.results)]
    /\ UNCHANGED <<clientVars, xport, wire>>

\* ConnectionPool(max_connections=n, ...) and k workers, each with the
\* connection it holds and how it got it.
NewPoolProgram(n, k) ==
    [prog |-> "pool",
     prim |-> [max_connections |-> n, created |-> 0, idle |-> <<>>, waiters |-> <<>>],
     work |-> [t \in 1..k |-> [pc |-> "start", conn |-> 0, found_idle |-> FALSE, found_full |-> FALSE,
                               called_factory |-> FALSE, suspended |-> FALSE, woken |-> FALSE]],
     mem |-> [connections_created |-> 0]]

\* Faulty variant of MayCreate: the connections are not counted.
MayCreateAlways(pool) == TRUE

\* Whether acquire may create one more connection.
MayCreate(pool) == pool.created < pool.max_connections

\* ConnectionPool.acquire up to its first suspension: a released
\* connection is reused; else one more is created while fewer than
\* max_connections exist, the factory being awaited; else the caller waits.
PoolAcquire(c, t) ==
    IF c.prim.idle # <<>>
    THEN [c EXCEPT !.prim.idle = Tail(@), !.work[t].conn = Head(c.prim.idle), !.work[t].pc = "acquired"]
    ELSE IF MayCreate(c.prim)
    THEN [c EXCEPT !.prim.created = @ + 1, !.work[t].conn = c.prim.created + 1,
                   !.work[t].called_factory = TRUE, !.work[t].pc = "creating",
                   !.mem.connections_created = @ + 1]
    ELSE Suspend(c, t)

\* ConnectionPool.release: the connection goes to the first waiter, or
\* back to the pool.
PoolRelease(c, t) ==
    IF c.prim.waiters = <<>>
    THEN [c EXCEPT !.prim.idle = Append(@, c.work[t].conn)]
    ELSE LET w == Head(c.prim.waiters)
         IN Resume([c EXCEPT !.work[w].conn = c.work[t].conn], w)

\* worker: conn = await pool.acquire()
WorkerAcquire(t) ==
    /\ conc.prog = "pool"
    /\ At(t, "start")
    /\ LET called == [conc EXCEPT !.work[t].found_idle = conc.prim.idle # <<>>,
                                  !.work[t].found_full = conc.prim.idle = <<>> /\ conc.prim.created = conc.prim.max_connections]
       IN conc' = PoolAcquire(called, t)
    /\ UNCHANGED <<clientVars, xport, wire>>

\* connection_factory: the sleep is over; return MockConnection(...)
FactoryReturn(t) ==
    /\ conc.prog = "pool"
    /\ At(t, "creating")
    /\ conc' = [conc EXCEPT !.work[t].pc = "acquired"]
    /\ UNCHANGED <<clientVars, xport, wire>>

\* worker: results.append("acquired"); await anyio.sleep(0.1)
WorkerWork(t) ==
    /\ conc.prog = "pool"
    /\ At(t, "acquired")
    /\ conc' = [conc EXCEPT !.work[t].pc = "sleeping"]
    /\ UNCHANGED <<clientVars, xport, wire>>

\* worker: await pool.release(conn); results.append("released")
WorkerRelease(t) ==
    /\ conc.prog = "pool"
    /\ At(t, "sleeping")
    /\ conc' = PoolRelease([conc EXCEPT !.work[t].pc = "done"], t)
    /\ UNCHANGED <<clientVars, xport, wire>>

InitPatterns ==
    /\ ClientIdle
    /\ xport = NoneV
    /\ wire = NoneV
    /\ \/ \E n \in 0..MaxWorkers, mc \in 1..MaxTokens :
            \E items \in [1..n -> Urls] : conc = NewParallelRequests(items, mc)
       \/ \E n \in 1..MaxTokens, k \in Workers : conc = NewPoolProgram(n, k)

NextPatterns ==
    \/ \E i \in Workers : ParallelAcquire(i)
    \/ \E i \in Workers : ParallelCall(i)
    \/ \E i \in Workers : ParallelReturn(i)
    \/ \E i \in Workers : ParallelUnwind(i)
    \/ ParallelExit
    \/ \E t \in Workers : WorkerAcquire(t)
    \/ \E t \in Workers : FactoryReturn(t)
    \/ \E t \in Workers : WorkerWork(t)
    \/ \E t \in Workers : WorkerRelease(t)

SpecPatterns == InitPatterns /\ [][NextPatterns]_vars

\* C29: when every call of fn succeeds the list returned holds fn(items[i])
\* at i, in whatever order the calls completed; when a call raises, the
\* children that had not terminated end cancelled and that error is raised.
C29_ParallelRequestsInOrder ==
    (conc.prog = "parallel" /\ conc.mem.returned) =>
        LET n == Len(conc.items)
            failing == {i \in 1..n : Fetch(conc.items[i]).tag = "err"}
        IN /\ failing = {} => conc.mem.out = Ok([i \in 1..n |-> Fetch(conc.items[i]).body])
           /\ failing # {} =>
                 /\ \E i \in failing : conc.work[i].pc = "failed" /\ conc.mem.out = Fetch(conc.items[i])
                 /\ \A i \in 1..n : conc.work[i].pc = "done" \/ conc.work[i].pc = "cancelled" \/ conc.work[i].pc = "failed"
                 /\ Cardinality({i \in 1..n : conc.work[i].pc = "failed"}) = 1
                 /\ \A i \in 1..n : conc.work[i].pc = "done" => conc.mem.results[i] = Fetch(conc.items[i]).body

C29_Witness ==
    /\ conc.prog = "parallel"
    /\ conc.mem.returned
    /\ conc.items = <<"url1", "url2", "url1">>
    /\ conc.mem.order = <<2, 1, 3>>
    /\ conc.mem.out = Ok(<<[response |-> "url1"], [response |-> "url2"], [response |-> "url1"]>>)

--------------------------------------------------------------------------
\* retry_with_timeout(fn, max_retries, timeout) of the concurrency patterns:
\* each attempt runs fn inside fail_after(timeout); after a timeout or an
\* exception it sleeps a backoff and tries again, up to max_retries - 1 more
\* times, and after the last failure it raises the last error.
\*
\* fn is the operation of the tests, generalised: what its n-th invocation
\* does is the n-th entry of a script (the last entry from then on): it
\* returns at once, it raises, or it sleeps beyond the timeout.

MaxAttempts == 3
Behaviours == {"fast", "slow", "raise"}

NewRetryWithTimeout(k, script) ==
    [prog |-> "retry", max_retries |-> k, script |-> script, pc |-> "ready", attempt |-> 0,
     last_error |-> NoneV, out |-> NoneV, work |-> <<>>,
     mem |-> [attempts |-> 0, completed_at |-> 0, result |-> NoneV]]

\* Faulty variant of MayRetryAgain: one attempt too many is allowed.
MayRetryAgainOneMore(c) == c.attempt < c.max_retries

\* Whether another attempt follows the failed attempt number c.attempt (from 0).
MayRetryAgain(c) == c.attempt < c.max_retries - 1

\* An attempt completed within its timeout: its result is returned.
AttemptSucceeded(c, v) ==
    [c EXCEPT !.pc = "done", !.out = Ok(v), !.mem.completed_at = c.mem.attempts, !.mem.result = Ok(v)]

\* An attempt timed out or raised e: back off and try again, or raise e.
AttemptFailed(c, e) ==
    IF MayRetryAgain(c)
    THEN [c EXCEPT !.pc = "backoff", !.last_error = e]
    ELSE [c EXCEPT !.pc = "done", !.last_error = e, !.out = e]

\* fn is invoked inside fail_after: operation() counts the invocation, and
\* returns "success", raises, or suspends in a sleep longer than the timeout.
OperationCall ==
    /\ conc.prog = "retry"
    /\ conc.pc = "ready"
    /\ LET c == [conc EXCEPT !.mem.attempts = @ + 1]
           n == IF c.mem.attempts <= Len(conc.script) THEN c.mem.attempts ELSE Len(conc.script)
           does == conc.script[n]
       IN conc' = CASE does = "fast" -> AttemptSucceeded(c, "success")
                    [] does = "raise" -> AttemptFailed(c, Raised("ValueError"))
                    [] does = "slow" -> [c EXCEPT !.pc = "in_fn"]
    /\ UNCHANGED <<clientVars, xport, wire>>

\* The deadline of fail_after fires while fn is suspended: fn is cancelled
\* and the scope raises TimeoutError.
FailAfterDeadline ==
    /\ conc.prog = "retry"
    /\ conc.pc = "in_fn"
    /\ conc' = AttemptFailed(conc, Raised("TimeoutError"))
    /\ UNCHANGED <<clientVars, xport, wire>>

\* The backoff sleep ends and the next attempt begins.
BackoffEnd ==
    /\ conc.prog = "retry"
    /\ conc.pc = "backoff"
    /\ conc' = [conc EXCEPT !.pc = "ready", !.attempt = @ + 1]
    /\ UNCHANGED <<clientVars, xport, wire>>

InitRetryTimeout ==
    /\ ClientIdle
    /\ xport = NoneV
    /\ wire = NoneV
    /\ \E k \in 1..MaxAttempts : \E script \in [1..k -> Behaviours] : conc = NewRetryWithTimeout(k, script)

NextRetryTimeout ==
    \/ OperationCall
    \/ FailAfterDeadline
    \/ BackoffEnd

SpecRetryTimeout == InitRetryTimeout /\ [][NextRetryTimeout]_vars

\* C31: retry_with_timeout(fn, max_retries = k, timeout) with k >= 1 never
\* invokes fn more than k times and has invoked it at least once when it
\* ends; once an attempt has completed within its timeout the call has
\* ended with that attempt's result and fn has not been invoked again.
C31_InvocationsWithinBounds ==
    conc.prog = "retry" =>
        /\ conc.mem.attempts <= conc.max_retries
        /\ conc.pc = "done" => conc.mem.attempts >= 1
        /\ conc.mem.completed_at # 0 =>
              /\ conc.pc = "done"
              /\ conc.out = conc.mem.result
              /\ conc.mem.attempts = conc.mem.completed_at

C31_Witness ==
    /\ conc.prog = "retry"
    /\ conc.max_retries = 3
    /\ conc.script = <<"slow", "slow", "fast">>
    /\ conc.pc = "done"
    /\ conc.mem.attempts = 3
    /\ conc.out = Ok("success")

--------------------------------------------------------------------------
\* The message contract of the transport layer (JsonMessage, BinaryMessage):
\* headers and a payload, serialize() to bytes and deserialize(bytes).
\*
\* Text is a sequence of code points and bytes are a sequence of 0..255.  A
\* value of the JSON data model is J(t, v): a string, an integer, a boolean,
\* null, a list of values, or a dict, which is the sequence of its
\* <<key, value>> pairs in insertion order, the keys being distinct strings.

MaxText == 2

J(t, v) == [t |-> t, v |-> v]

\* The letter a, the double quote and e with an acute accent.
Chars == {97, 34, 233}
Texts == UNION {[1..n -> Chars] : n \in 0..MaxText}
Keys == {s \in Texts : Len(s) <= 1}
Simple == {J("int", 7), J("bool", TRUE), J("str", <<>>)}

\* The values of the property tests: text, integers and booleans.
HeaderValues == {J("str", s) : s \in Texts} \cup {J("int", n) : n \in {0, 7, -12}} \cup {J("bool", b) : b \in BOOLEAN}

\* Header mappings with no entry, one entry, or two.
HeaderSets ==
    {<<>>} \cup {<< <<k, v>> >> : k \in Keys, v \in HeaderValues}
           \cup {<< <<(<<97>>), v>>, <<(<<34>>), w>> >> : v \in Simple, w \in Simple}

\* Payloads of a JsonMessage: a scalar or None, a list, a dict.
JsonPayloads ==
    HeaderValues \cup {J("null", 0)}
        \cup {J("list", l) : l \in UNION {[1..n -> Simple] : n \in 0..2}}
        \cup {J("dict", h) : h \in {g \in HeaderSets : Len(g) # 1}}

\* Payloads of a BinaryMessage: raw bytes.
BinaryPayloads == UNION {[1..n -> {0, 255}] : n \in 0..2}

RECURSIVE Concat(_)
\* The concatenation of a sequence of sequences.
Concat(seqs) == IF seqs = <<>> THEN <<>> ELSE Head(seqs) \o Concat(Tail(seqs))

RECURSIVE Join(_, _)
\* sep.join(seqs)
Join(seqs, sep) ==
    IF Len(seqs) <= 1 THEN Concat(seqs) ELSE Head(seqs) \o sep \o Join(Tail(seqs), sep)

RECURSIVE Digits(_)
\* The decimal digits of n >= 0.
Digits(n) == IF n < 10 THEN <<48 + n>> ELSE Digits(n \div 10) \o <<48 + (n % 10)>>

\* Faulty variant of EscapeChar: nothing is escaped.
EscapeCharRaw(c) == <<c>>

\* How json.dumps writes one character of a string: the quote and the
\* backslash are escaped, a character outside ASCII is written \uXXXX.
EscapeChar(c) ==
    LET hex(d) == IF d < 10 THEN 48 + d ELSE 87 + d
    IN CASE c = 34 -> <<92, 34>>
         [] c = 92 -> <<92, 92>>
         [] c < 32 \/ c > 126 ->
               <<92, 117, hex(c \div 4096), hex((c \div 256) % 16), hex((c \div 16) % 16), hex(c % 16)>>
         [] OTHER -> <<c>>

RECURSIVE JsonDumps(_)
\* json.dumps(v) with its default separators.
JsonDumps(v) ==
    CASE v.t = "str" -> <<34>> \o Concat([i \in 1..Len(v.v) |-> EscapeChar(v.v[i])]) \o <<34>>
      [] v.t = "int" -> IF v.v < 0 THEN <<45>> \o Digits(0 - v.v) ELSE Digits(v.v)
      [] v.t = "bool" -> IF v.v THEN <<116, 114, 117, 101>> ELSE <<102, 97, 108, 115, 101>>
      [] v.t = "null" -> <<110, 117, 108, 108>>
      [] v.t = "list" -> <<91>> \o Join([i \in 1..Len(v.v) |-> JsonDumps(v.v[i])], <<44, 32>>) \o <<93>>
      [] v.t = "dict" ->
            <<123>> \o Join([i \in 1..Len(v.v) |->
                                JsonDumps(J("str", v.v[i][1])) \o <<58, 32>> \o JsonDumps(v.v[i][2])],
                            <<44, 32>>) \o <<125>>

\* What a parser returns: the value read and the text after it, or a failure.
Parsed(v, rest) == [ok |-> TRUE, v |-> v, rest |-> rest]
Bad == [ok |-> FALSE, v |-> 0, rest |-> <<>>]

\* b without its first n elements.
Rest(b, n) == SubSeq(b, n + 1, Len(b))

RECURSIVE SkipWs(_)
SkipWs(b) == IF b # <<>> /\ b[1] \in {32, 9, 10, 13} THEN SkipWs(Tail(b)) ELSE b

\* The value of a hexadecimal digit, -1 for another character.
HexVal(c) ==
    IF c \in 48..57 THEN c - 48 ELSE IF c \in 97..102 THEN c - 87 ELSE IF c \in 65..70 THEN c - 55 ELSE 0 - 1

RECURSIVE ScanString(_, _)
\* A JSON string from after its opening quote, acc being what was read.
ScanString(b, acc) ==
    IF b = <<>> THEN Bad
    ELSE IF b[1] = 34 THEN Parsed(J("str", acc), Rest(b, 1))
    ELSE IF b[1] = 92
    THEN IF Len(b) >= 2 /\ b[2] \in {34, 92, 47}
         THEN ScanString(Rest(b, 2), Append(acc, b[2]))
         ELSE IF Len(b) >= 6 /\ b[2] = 117 /\ \A i \in 3..6 : HexVal(b[i]) >= 0
         THEN ScanString(Rest(b, 6),
                         Append(acc, ((HexVal(b[3]) * 16 + HexVal(b[4])) * 16 + HexVal(b[5])) * 16 + HexVal(b[6])))
         ELSE Bad
    ELSE IF b[1] < 32 THEN Bad
    ELSE ScanString(Rest(b, 1), Append(acc, b[1]))

RECURSIVE ScanDigits(_, _, _)
\* The digits of an integer, n being the value read so far.
ScanDigits(b, n, seen) ==
    IF b # <<>> /\ b[1] \in 48..57 THEN ScanDigits(Rest(b, 1), n * 10 + (b[1] - 48), TRUE)
    ELSE IF seen THEN Parsed(J("int", n), b)
    ELSE Bad

\* d[key] = v on a dict given as its pairs.
Put(pairs, key, v) ==
    IF \E i \in 1..Len(pairs) : pairs[i][1] = key
    THEN [i \in 1..Len(pairs) |-> IF pairs[i][1] = key THEN <<key, v>> ELSE pairs[i]]
    ELSE Append(pairs, <<key, v>>)

RECURSIVE ParseValue(_)
RECURSIVE ParseElements(_, _)
RECURSIVE ParseMembers(_, _)

\* One JSON value at the start of b, after whitespace.
ParseValue(b0) ==
    LET b == SkipWs(b0)
        starts(p) == Len(b) >= Len(p) /\ SubSeq(b, 1, Len(p)) = p
    IN IF b = <<>> THEN Bad
       ELSE CASE b[1] = 34 -> ScanString(Rest(b, 1), <<>>)
              [] b[1] = 91 ->
                    IF SkipWs(Rest(b, 1)) # <<>> /\ SkipWs(Rest(b, 1))[1] = 93
                    THEN Parsed(J("list", <<>>), Rest(SkipWs(Rest(b, 1)), 1))
                    ELSE ParseElements(Rest(b, 1), <<>>)
              [] b[1] = 123 ->
                    IF SkipWs(Rest(b, 1)) # <<>> /\ SkipWs(Rest(b, 1))[1] = 125
                    THEN Parsed(J("dict", <<>>), Rest(SkipWs(Rest(b, 1)), 1))
                    ELSE ParseMembers(Rest(b, 1), <<>>)
              [] b[1] = 45 ->
                    LET r == ScanDigits(Rest(b, 1), 0, FALSE)
                    IN IF r.ok THEN Parsed(J("int", 0 - r.v.v), r.rest) ELSE Bad
              [] b[1] \in 48..57 -> ScanDigits(b, 0, FALSE)
              [] starts(<<116, 114, 117, 101>>) -> Parsed(J("bool", TRUE), Rest(b, 4))
              [] starts(<<102, 97, 108, 115, 101>>) -> Parsed(J("bool", FALSE), Rest(b, 5))
              [] starts(<<110, 117, 108, 108>>) -> Parsed(J("null", 0), Rest(b, 4))
              [] OTHER -> Bad

\* The elements of an array from after "[" or ",", acc being those read.
ParseElements(b, acc) ==
    LET r == ParseValue(b)
        after == SkipWs(r.rest)
    IN IF ~r.ok \/ after = <<>> THEN Bad
       ELSE IF after[1] = 44 THEN ParseElements(Rest(after, 1), Append(acc, r.v))
       ELSE IF after[1] = 93 THEN Parsed(J("list", Append(acc, r.v)), Rest(after, 1))
       ELSE Bad

\* The members of an object from after "{" or ",", acc being those read.
ParseMembers(b0, acc) ==
    LET b == SkipWs(b0)
        k == IF b # <<>> /\ b[1] = 34 THEN ScanString(Rest(b, 1), <<>>) ELSE Bad
        colon == SkipWs(k.rest)
        r == IF k.ok /\ colon # <<>> /\ colon[1] = 58 THEN ParseValue(Rest(colon, 1)) ELSE Bad
        after == SkipWs(r.rest)
    IN IF ~r.ok \/ after = <<>> THEN Bad
       ELSE IF after[1] = 44 THEN ParseMembers(Rest(after, 1), Put(acc, k.v.v, r.v))
       ELSE IF after[1] = 125 THEN Parsed(J("dict", Put(acc, k.v.v, r.v)), Rest(after, 1))
       ELSE Bad

\* json.loads(text): one value and nothing but whitespace after it.
JsonLoads(text) ==
    LET r == ParseValue(text)
    IN IF r.ok /\ SkipWs(r.rest) = <<>> THEN r ELSE Bad

\* text.encode("utf-8"), for code points below 2048.
Utf8Encode(text) ==
    Concat([i \in 1..Len(text) |-> IF text[i] < 128 THEN <<text[i]>>
                                   ELSE <<192 + (text[i] \div 64), 128 + (text[i] % 64)>>])

RECURSIVE Utf8Decode(_, _)
\* bytes.decode("utf-8"), acc being the text decoded so far.
Utf8Decode(b, acc) ==
    IF b = <<>> THEN Parsed(acc, <<>>)
    ELSE IF b[1] < 128 THEN Utf8Decode(Rest(b, 1), Append(acc, b[1]))
    ELSE IF b[1] \in 194..223 /\ Len(b) >= 2 /\ b[2] \in 128..191
    THEN Utf8Decode(Rest(b, 2), Append(acc, (b[1] - 192) * 64 + (b[2] - 128)))
    ELSE Bad

\* The keys of the serialized JsonMessage: "headers" and "payload".
HeadersKey == <<104, 101, 97, 100, 101, 114, 115>>
PayloadKey == <<112, 97, 121, 108, 111, 97, 100>>

\* pairs[key] for a key the dict has.
Lookup(pairs, key) == pairs[CHOOSE i \in 1..Len(pairs) : pairs[i][1] = key][2]
HasKey(pairs, key) == \E i \in 1..Len(pairs) : pairs[i][1] = key

Message(headers, payload) == [headers |-> headers, payload |-> payload]

\* JsonMessage.serialize
JsonSerialize(m) ==
    Utf8Encode(JsonDumps(J("dict", << <<HeadersKey, J("dict", m.headers)>>, <<PayloadKey, m.payload>> >>)))

\* JsonMessage.deserialize
JsonDeserialize(data) ==
    LET text == Utf8Decode(data, <<>>)
        doc == IF text.ok THEN JsonLoads(text.v) ELSE Bad
    IN IF doc.ok /\ doc.v.t = "dict" /\ HasKey(doc.v.v, HeadersKey) /\ Lookup(doc.v.v, HeadersKey).t = "dict"
       THEN Ok(Message(Lookup(doc.v.v, HeadersKey).v,
                       IF HasKey(doc.v.v, PayloadKey) THEN Lookup(doc.v.v, PayloadKey) ELSE J("null", 0)))
       ELSE Raised("DeserializationError")

\* n.to_bytes(4, byteorder="big")
BigEndian4(n) == <<(n \div 16777216) % 256, (n \div 65536) % 256, (n \div 256) % 256, n % 256>>

\* int.from_bytes(b, byteorder="big") for four bytes
FromBigEndian(b) == ((b[1] * 256 + b[2]) * 256 + b[3]) * 256 + b[4]

\* BinaryMessage.serialize: the length of the header JSON on four bytes,
\* the header JSON, the payload.
BinarySerialize(m) ==
    LET header_json == Utf8Encode(JsonDumps(J("dict", m.headers)))
    IN BigEndian4(Len(header_json)) \o header_json \o m.payload

\* BinaryMessage.deserialize
BinaryDeserialize(data) ==
    IF Len(data) < 4 THEN Raised("DeserializationError")
    ELSE LET header_len == FromBigEndian(SubSeq(data, 1, 4))
         IN IF Len(data) < 4 + header_len THEN Raised("DeserializationError")
            ELSE LET text == Utf8Decode(SubSeq(data, 5, 4 + header_len), <<>>)
                     doc == IF text.ok THEN JsonLoads(text.v) ELSE Bad
                 IN IF doc.ok /\ doc.v.t = "dict"
                    THEN Ok(Message(doc.v.v, Rest(data, 4 + header_len)))
                    ELSE Raised("DeserializationError")

\* A message just built, not yet serialized.
NewWire(impl, m) == [impl |-> impl, message |-> m, pc |-> "new", data |-> <<>>, intact |-> TRUE, out |-> NoneV]

\* message.serialize()
Serialize ==
    /\ wire.pc = "new"
    /\ wire' = [wire EXCEPT !.pc = "serialized",
                            !.data = IF wire.impl = "json" THEN JsonSerialize(wire.message)
                                     ELSE BinarySerialize(wire.message)]
    /\ UNCHANGED <<clientVars, xport, conc>>

\* The bytes handed to deserialize are not all that serialize wrote: only
\* the first three, or all but the last.
Truncate(short) ==
    /\ wire.pc = "serialized"
    /\ wire.intact
    /\ wire' = [wire EXCEPT !.data = SubSeq(wire.data, 1, IF short THEN 3 ELSE Len(wire.data) - 1),
                            !.intact = FALSE]
    /\ UNCHANGED <<clientVars, xport, conc>>

\* JsonMessage.deserialize(data) or BinaryMessage.deserialize(data)
Deserialize ==
    /\ wire.pc = "serialized"
    /\ wire' = [wire EXCEPT !.pc = "done",
                            !.out = IF wire.impl = "json" THEN JsonDeserialize(wire.data)
                                    ELSE BinaryDeserialize(wire.data)]
    /\ UNCHANGED <<clientVars, xport, conc>>

InitMessage ==
    /\ ClientIdle
    /\ xport = NoneV
    /\ conc = NoneV
    /\ \/ \E h \in HeaderSets, p \in JsonPayloads : wire = NewWire("json", Message(h, p))
       \/ \E h \in HeaderSets, p \in BinaryPayloads : wire = NewWire("binary", Message(h, p))

NextMessage ==
    \/ Serialize
    \/ \E short \in BOOLEAN : Truncate(short)
    \/ Deserialize

SpecMessage == InitMessage /\ [][NextMessage]_vars

\* C32: for every message m of the JSON and of the binary implementation,
\* deserialize applied to the bytes serialize wrote returns a message whose
\* headers equal m's headers and whose payload equals m's payload.
C32_RoundTrip ==
    (wire.pc = "done" /\ wire.intact) =>
        /\ wire.out.tag = "ok"
        /\ wire.out.body.headers = wire.message.headers
        /\ wire.out.body.payload = wire.message.payload

\* A binary message whose header has a quote in its key and a character
\* outside ASCII in its value came back with its two payload bytes.
C32_Witness ==
    /\ wire.pc = "done"
    /\ wire.intact
    /\ wire.impl = "binary"
    /\ wire.message = Message(<< <<(<<34>>), J("str", <<233, 34>>)>> >>, <<0, 255>>)
    /\ wire.out = Ok(wire.message)
    /\ Len(wire.data) = 4 + 18 + 2

--------------------------------------------------------------------------
\* Properties of the dispatcher's use of its transport.

\* The requests that have invoked send and whose receive has not ended.
OnTransport == {t \in Tasks : tasks[t].pc \in {"send", "recv"}}

\* C33 as stated: between a request's send and the end of its receive no
\* other request of the client invokes send or receive, so at most one
\* request is between the two at any moment (checked under SpecBatch).
C33_TransportOperationsSerialized == Cardinality(OnTransport) <= 1

\* C34 as stated: when batch_request with two or more requests is the first
\* use of a client that owns its transport, the transport is created at
\* most once and connect is invoked at most once at every moment, and
\* exactly once each when the batch has ended without its deadline firing
\* (checked under SpecBatch, whose clients are not initialized).
C34_BatchConnectsOnce ==
    (caller = "batch" /\ client.owns_transport /\ NumRequests >= 2) =>
        /\ ghost.create_count <= 1
        /\ ghost.connect_count <= 1
        /\ (batch.pc = "done" /\ ~batch.cancel_called) =>
              (ghost.create_count = 1 /\ ghost.connect_count = 1)

\* C35 as stated: the first request of a client built with an injected
\* transport connects that transport, whether or not a factory is
\* registered under the client's transport_type: once the request has
\* begun, connect has been invoked, and the request does not end with a
\* ConfigurationError (checked under SpecRequest).
C35_InjectedIgnoresRegistry ==
    (~client.owns_transport /\ tasks[1].pc # "idle") =>
        /\ ghost.connect_count = 1
        /\ ~(tasks[1].pc = "done" /\ IsInstance(tasks[1].out, "ConfigurationError"))

\* C36 as stated: request raises TimeoutError only when the deadline cut
\* the connect, the send or the receive short; when every chunk was read
\* the response is returned (checked under SpecRequest).
C36_TimeoutOnlyWhenCutShort ==
    (tasks[1].pc = "done" /\ IsTimeout(tasks[1].out)) =>
        /\ ghost.fired[1] \in InFlight
        /\ Len(tasks[1].result) < NumChunks

\* C37 as stated: no slot of a list returned by batch_request holds a
\* ConfigurationError (checked under SpecBatch).
C37_NoConfigurationErrorInSlot ==
    BatchReturned =>
        \A i \in Indices : ~IsInstance(batch.out.items[i], "ConfigurationError")

\* C38: when send or receive raised an error that is already of the
\* taxonomy, request has ended raising that same error, not a new error
\* wrapping it (checked under SpecRequest, where the connect of the request
\* came first and succeeded).
C38_TaxonomyErrorNotRewrapped ==
    (ghost.tfail[1] = "TransportError" /\ ghost.connect_ok = 1) =>
        /\ tasks[1].pc = "done"
        /\ tasks[1].out = Err("TransportError", FALSE, req.data, 1)

\* The connect succeeded, and send or receive raised a TransportError.
C38_Witness ==
    /\ ghost.tfail[1] = "TransportError"
    /\ ghost.connect_ok = 1
    /\ ghost.send_count = 1
    /\ tasks[1].pc = "done"
    /\ tasks[1].out.kind = "TransportError"
    /\ ~tasks[1].out.wrapped

\* C39 as stated: after aclose or the exit of the scope, a client that owns
\* its transport holds no transport and is not initialized, whether
\* disconnect returned or raised (checked under SpecLife).
C39_ClosedClientHoldsNothing ==
    (Constructed /\ client.owns_transport /\ (JustDid("aclose") \/ JustDid("exit"))) =>
        /\ client.transport = 0
        /\ ~client.transport_initialized

\* C40: in request_with_retry the failed attempt number a (from 0) that is
\* followed by another attempt is followed by exactly one sleep, of
\* retry_delay * 2^a; nothing is slept after the last attempt, after a
\* success or after an error that is not retried.  So one failure followed
\* by a success sleeps retry_delay in all (checked under SpecRetry).
C40_BackoffDoubles ==
    LET made == Len(ghost.attempts)
        slept == retry.sleeps
    IN /\ \A a \in 0..(Len(slept) - 1) : slept[a + 1] = retry.retry_delay * (2 ^ a)
       /\ retry.pc \in {"sleeping", "calling"} => Len(slept) = made
       /\ (retry.pc = "done" /\ made >= 1) => Len(slept) = made - 1
       /\ (retry.pc = "done" /\ made = 2 /\ ghost.attempts[2].tag = "ok") => slept = <<retry.retry_delay>>

\* Two attempts failed and the third succeeded: sleeps of retry_delay and
\* of twice retry_delay.
C40_Witness ==
    /\ retry.pc = "done"
    /\ retry.max_retries = 3
    /\ retry.retry_delay = 3
    /\ Len(ghost.attempts) = 3
    /\ ghost.attempts[3].tag = "ok"
    /\ retry.sleeps = <<3, 6>>

====
